---- MODULE Spec2Model ----
(***************************************************************************)
(* A model of the competitive-sudoku agents of team 27 (A1, A2, A3 and     *)
(* the Monte Carlo variant of A3): the game-state helpers, the taboo       *)
(* inference passes, the move heuristics, and the two search engines.      *)
(*                                                                         *)
(* A GameState is the record                                               *)
(*   [m, n, board, moves, scores, taboo_moves]                             *)
(* with board a function from the cells <<i, j>> (0-based) to 0..N, 0      *)
(* being SudokuBoard.empty, and N = m * n.                                 *)
(*                                                                         *)
(* A Python dict keyed by cells is a function whose DOMAIN is the key set. *)
(* Every such dict of the program is filled in row-major order and only    *)
(* ever loses keys, so its iteration order is the row-major order of its   *)
(* keys (KeysInOrder).  A Python list of digits is a sequence.             *)
(***************************************************************************)
EXTENDS Integers, Sequences, FiniteSets, TLC

VARIABLES
    store,      \* the heap of GameState objects; store[1] is the caller's game_state
    op,         \* the helper that ran last ("init" before any call)
    arg,        \* the arguments of that call
    out,        \* what that call returned
    plies,      \* how many plies the caller has descended below its initial state
    agent,      \* the agent whose compute_best_move runs: "A1" or "A3" ("" if none)
    pc,         \* where compute_best_move stands
    root,       \* the root Node of compute_best_move
    iter,       \* the depth variable i of compute_best_move
    log,        \* the calls compute_best_move has made, in order
    seed        \* the seed of the random generator

helperVars == <<store, op, arg, out, plies>>

engineVars == <<agent, pc, root, iter, log, seed>>

vars == <<store, op, arg, out, plies, agent, pc, root, iter, log, seed>>

-----------------------------------------------------------------------------
(* Bounds of the model *)

\* at most this many cells of a solved board are emptied in an initial state
MaxEmpty == 3
\* at most this many entries in game_state.taboo_moves of an initial state
MaxTaboo == 1
\* at most this many moves are played on top of an initial state
MaxPlies == 1

\* the seeds the random generator may start from are 0 .. MaxSeed - 1
MaxSeed == 2
\* the loops of compute_best_move are followed up to this depth (the loop of
\* A1 has no end, that of A3 ends at max_depth)
MaxIterations == 4
\* on a board with at most MaxDeepEmpty empty cells the loops are followed
\* further: that of A3 to its end, that of A1 up to depth MaxRounds
MaxDeepEmpty == 1
MaxRounds == 21
\* at most this many cells are emptied in a board given to taboo inference
MaxTabooEmpty == 3

\* Board shape of the small boards: blocks of Rows2 rows and Cols2 columns
Rows2 == 2
Cols2 == 2
\* Board shape of the standard board, the smallest that locked candidates treat
Rows3 == 3
Cols3 == 3

-----------------------------------------------------------------------------
(* Generic helpers *)

Range(s) == {s[k] : k \in 1..Len(s)}

Min2(a, b) == IF a <= b THEN a ELSE b
Max2(a, b) == IF a >= b THEN a ELSE b

RECURSIVE SortedSeq(_)
\* list(set_of_small_ints): CPython iterates a set of small ints 1..7 in
\* ascending order (the hash of an int is the int, the table has >= 8 slots)
SortedSeq(S) ==
    IF S = {} THEN <<>>
    ELSE LET x == CHOOSE y \in S : \A z \in S : y <= z
         IN <<x>> \o SortedSeq(S \ {x})

\* list.remove(v) on a list without repetitions
ListRemove(s, v) == SelectSeq(s, LAMBDA x : x # v)

BoardN(g) == g.m * g.n

Cells(N) == (0..(N-1)) \X (0..(N-1))

RECURSIVE CellsInOrder(_, _, _)
\* the cells of S in row-major order, scanning index k = i * N + j upward
CellsInOrder(S, N, k) ==
    IF k >= N * N THEN <<>>
    ELSE LET c == <<k \div N, k % N>>
         IN (IF c \in S THEN <<c>> ELSE <<>>) \o CellsInOrder(S, N, k + 1)

\* iteration order of a dict keyed by cells
KeysInOrder(d, N) == CellsInOrder(DOMAIN d, N, 0)

FirstCell(S, N) == CellsInOrder(S, N, 0)[1]

RowCells(i, N) == {c \in Cells(N) : c[1] = i}
ColumnCells(j, N) == {c \in Cells(N) : c[2] = j}

EmptyCells(g) == {c \in Cells(BoardN(g)) : g.board[c] = 0}

-----------------------------------------------------------------------------
(* game_helpers.py *)

board_filled_in(g) == \A c \in Cells(BoardN(g)) : g.board[c] # 0

board_half_filled_in(g) ==
    LET total_cells == BoardN(g) * BoardN(g)
        cells_filled_in == Cardinality({c \in Cells(BoardN(g)) : g.board[c] # 0})
    IN 2 * cells_filled_in >= total_cells

even_number_of_squares_left(g) == Cardinality(EmptyCells(g)) % 2 = 0

get_block_top_left_coordinates(row_index, column_index, m, n) ==
    <<row_index - (row_index % m), column_index - (column_index % n)>>

all_block_indices(g) ==
    {<<i, j>> : i \in {x \in 0..(BoardN(g)-1) : x % g.m = 0},
                j \in {y \in 0..(BoardN(g)-1) : y % g.n = 0}}

allowed_numbers_in_block(g, row, column) ==
    LET block_start_row == row - (row % g.m)
        block_end_row == row + (g.m - (row % g.m))
        block_start_column == column - (column % g.n)
        block_end_column == column + (g.n - (column % g.n))
        numbers_in_block ==
            {g.board[<<i, j>>] : i \in block_start_row..(block_end_row - 1),
                                 j \in block_start_column..(block_end_column - 1)} \ {0}
    IN (1..BoardN(g)) \ numbers_in_block

allowed_numbers_in_row(g, row) ==
    (1..BoardN(g)) \ ({g.board[<<row, column>>] : column \in 0..(BoardN(g)-1)} \ {0})

allowed_numbers_in_column(g, column) ==
    (1..BoardN(g)) \ ({g.board[<<row, column>>] : row \in 0..(BoardN(g)-1)} \ {0})

\* the taboo moves of the game state are left in
RemoveTabooMoves_none(allowed_in_cell, taboo_moves) == allowed_in_cell

\* lines 105-110: every taboo move of the game state is struck from its cell
RemoveTabooMoves(allowed_in_cell, taboo_moves) ==
    [c \in DOMAIN allowed_in_cell |->
        SelectSeq(allowed_in_cell[c], LAMBDA v : <<c[1], c[2], v>> \notin taboo_moves)]

compute_all_legal_moves(g) ==
    LET N == BoardN(g)
        filled == {c \in Cells(N) : g.board[c] # 0}
        in_row == [i \in 0..(N-1) |-> {g.board[c] : c \in {d \in filled : d[1] = i}}]
        in_column == [j \in 0..(N-1) |-> {g.board[c] : c \in {d \in filled : d[2] = j}}]
        in_block == [b \in all_block_indices(g) |->
                        {g.board[c] : c \in {d \in filled :
                            get_block_top_left_coordinates(d[1], d[2], g.m, g.n) = b}}]
        not_in_row == [i \in 0..(N-1) |-> (1..N) \ in_row[i]]
        not_in_column == [j \in 0..(N-1) |-> (1..N) \ in_column[j]]
        not_in_block == [b \in all_block_indices(g) |-> (1..N) \ in_block[b]]
        allowed_in_cell ==
            [c \in Cells(N) \ filled |->
                SortedSeq((not_in_row[c[1]] \cap not_in_column[c[2]]) \cap
                          not_in_block[get_block_top_left_coordinates(c[1], c[2], g.m, g.n)])]
    IN [legal_moves |-> RemoveTabooMoves(allowed_in_cell, g.taboo_moves),
        rows |-> not_in_row,
        columns |-> not_in_column,
        blocks |-> not_in_block]

Move(i, j, value) == [i |-> i, j |-> j, value |-> value, kind |-> "Move"]
TabooMove(i, j, value) == [i |-> i, j |-> j, value |-> value, kind |-> "TabooMove"]

\* team27_A1: the same computation from the three allowed_numbers_in_*
\* helpers, on sets, flattened to a list of moves in row-major cell order
A1_compute_all_legal_moves(g) ==
    LET N == BoardN(g)
        rows == [i \in 0..(N-1) |-> allowed_numbers_in_row(g, i)]
        columns == [i \in 0..(N-1) |-> allowed_numbers_in_column(g, i)]
        blocks == [b \in all_block_indices(g) |-> allowed_numbers_in_block(g, b[1], b[2])]
        allowed_moves ==
            [c \in EmptyCells(g) |->
                (rows[c[1]] \cap columns[c[2]]) \cap
                blocks[<<c[1] - (c[1] % g.m), c[2] - (c[2] % g.n)>>]]
        without_taboo ==
            [c \in EmptyCells(g) |->
                {v \in allowed_moves[c] : <<c[1], c[2], v>> \notin g.taboo_moves}]
        F[k \in 0..Cardinality(EmptyCells(g))] ==
            IF k = 0 THEN <<>>
            ELSE LET c == CellsInOrder(EmptyCells(g), N, 0)[k]
                     vs == SortedSeq(without_taboo[c])
                 IN F[k - 1] \o [x \in 1..Len(vs) |-> Move(c[1], c[2], vs[x])]
    IN F[Cardinality(EmptyCells(g))]

\* the "copy" is the object itself (an alias)
deepcopy_alias(st, ref) == [store |-> st, ref |-> ref]

\* copy.deepcopy(game_state): a fresh object with the same contents
deepcopy(st, ref) == [store |-> Append(st, st[ref]), ref |-> Len(st) + 1]

\* one point per completed region
ScoreOfRegions_linear(regions_completed) == regions_completed

\* lines 237-249: the fixed table 0 -> 0, 1 -> 1, 2 -> 3, 3 -> 7
ScoreOfRegions(regions_completed) ==
    IF regions_completed = 1 THEN 1
    ELSE IF regions_completed = 2 THEN 3
    ELSE IF regions_completed = 3 THEN 7
    ELSE 0

\* the taboo variant also writes the digit on the copy's board
simulate_taboo_branch_puts(st, f, move) ==
    [store |-> [st EXCEPT ![f].board[<<move.i, move.j>>] = move.value,
                          ![f].moves = Append(@, TabooMove(move.i, move.j, move.value))],
     ref |-> f]

\* lines 217-219: the taboo variant only appends to the copy's history
simulate_taboo_branch(st, f, move) ==
    [store |-> [st EXCEPT ![f].moves = Append(@, TabooMove(move.i, move.j, move.value))],
     ref |-> f]

\* line 212: player 1 moves when the history has even length
simulating_for_of(g) == Len(g.moves) % 2

\* simulate_move on the heap st: the argument is the object st[ref]; the
\* result is the heap after the call and the reference that is returned
simulate_move(st, ref, move, taboo_move) ==
    LET simulating_for == simulating_for_of(st[ref])
        cp == deepcopy(st, ref)
        f == cp.ref
    IN IF taboo_move
       THEN simulate_taboo_branch(cp.store, f, move)
       ELSE LET st2 == [cp.store EXCEPT ![f].board[<<move.i, move.j>>] = move.value,
                                        ![f].moves = Append(@, move)]
                block_values_left ==
                    Cardinality(allowed_numbers_in_block(st2[f], move.i, move.j))
                row_values_left == Cardinality(allowed_numbers_in_row(st2[f], move.i))
                col_values_left == Cardinality(allowed_numbers_in_column(st2[f], move.j))
                regions_completed ==
                    (IF block_values_left = 0 THEN 1 ELSE 0)
                    + (IF row_values_left = 0 THEN 1 ELSE 0)
                    + (IF col_values_left = 0 THEN 1 ELSE 0)
                score == ScoreOfRegions(regions_completed)
            IN [store |-> [st2 EXCEPT ![f].scores[simulating_for + 1] = @ + score],
                ref |-> f]

\* the GameState object returned by simulate_move(game_state, move, taboo_move)
SimulatedState(g, move, taboo_move) ==
    LET r == simulate_move(<<g>>, 1, move, taboo_move) IN r.store[r.ref]

-----------------------------------------------------------------------------
(* team27_A2/helpers/taboo_move_calculation.py: the taboo inference passes. *)
(* Each pass edits legal_moves and taboo_moves in place; a pass is modelled   *)
(* on st = [lm, taboo, raised]: the dict, the taboo moves found so far as    *)
(* (cell, value) pairs, and whether an exception has been raised.            *)

\* the pairs (cell, value) whose elimination emptied the cell's list, for one
\* step that removes at most one value from a cell
Emptied(before, after) ==
    {<<c, before[c][1]>> : c \in {d \in DOMAIN before : before[d] # <<>> /\ after[d] = <<>>}}

\* the dict after a step, with the taboo moves the step has found
Eliminate(st, lm) == [st EXCEPT !.lm = lm, !.taboo = @ \cup Emptied(st.lm, lm)]

NoTaboo(lm) == [lm |-> lm, taboo |-> {}, raised |-> FALSE]

HasCandidate(lm, c, v) == c \in DOMAIN lm /\ v \in Range(lm[c])

\* lines 182-183: the i-th cell of the single's block as the code computes it
ObviousBlockCell(g, cell, i) ==
    LET fb == get_block_top_left_coordinates(cell[1], cell[2], g.m, g.n)
    IN <<fb[1] + (i \div g.m), fb[2] + (i % g.n)>>

\* lines 170-188: the single's value is removed from the other cells of its
\* column and row and from the cells the block loop visits
StrikeSingle(g, lm, cell) ==
    LET N == BoardN(g)
        single_value == lm[cell][1]
        targets == ({<<i, cell[2]>> : i \in 0..(N-1)}
                    \cup {<<cell[1], i>> : i \in 0..(N-1)}
                    \cup {ObviousBlockCell(g, cell, i) : i \in 0..(N-1)}) \ {cell}
    IN [c \in DOMAIN lm |-> IF c \in targets THEN ListRemove(lm[c], single_value) ELSE lm[c]]

RECURSIVE ObviousSinglesFrom(_, _, _, _)
\* lines 159-160: the loop over the cells, each tested when it is reached
ObviousSinglesFrom(g, st, keys, k) ==
    IF k > Len(keys) THEN st
    ELSE ObviousSinglesFrom(g,
            IF Len(st.lm[keys[k]]) = 1
            THEN Eliminate(st, StrikeSingle(g, st.lm, keys[k])) ELSE st,
            keys, k + 1)

obvious_singles(g, st) == ObviousSinglesFrom(g, st, KeysInOrder(st.lm, BoardN(g)), 1)

\* lines 250-251: the i-th cell of the cell's block
HiddenBlockCell(g, cell, i) ==
    LET fb == get_block_top_left_coordinates(cell[1], cell[2], g.m, g.n)
    IN <<fb[1] + (i \div g.n), fb[2] + (i % g.n)>>

\* the cell keeps the value and is given the next digit as well
AssignSingle_pair(lm, cell, possible_value) ==
    [lm EXCEPT ![cell] = <<possible_value, possible_value + 1>>]

\* line 288: the cell's list becomes the one value
AssignSingle(lm, cell, possible_value) == [lm EXCEPT ![cell] = <<possible_value>>]

\* lines 223-289 for one value of one cell.  st = [lm, nsr, nsc, nsb]: the
\* dict and the three non_singles caches (units -> values known to be legal
\* in more than one cell)
HiddenValueStep(g, st, cell, possible_value) ==
    LET N == BoardN(g)
        bi == <<cell[1] \div g.m, cell[2] \div g.n>>
        psr0 == possible_value \notin st.nsr[cell[1]]
        psc0 == possible_value \notin st.nsc[cell[2]]
        psb0 == possible_value \notin st.nsb[bi]
        rowHit == \E i \in 0..(N-1) :
                    cell[2] # i /\ HasCandidate(st.lm, <<cell[1], i>>, possible_value)
        colHit == \E i \in 0..(N-1) :
                    cell[1] # i /\ HasCandidate(st.lm, <<i, cell[2]>>, possible_value)
        blockHits == {HiddenBlockCell(g, cell, i) : i \in 0..(N-1)} \cap
                     {c \in DOMAIN st.lm : c # cell /\ possible_value \in Range(st.lm[c])}
        psr == psr0 /\ ~rowHit
        psc == psc0 /\ ~colHit
        psb == psb0 /\ blockHits = {}
        \* line 280-282: the cache entry is that of the first offending cell
        firstHit == FirstCell(blockHits, N)
        hb == <<firstHit[1] \div g.m, firstHit[2] \div g.n>>
    IN IF ~psr0 /\ ~psc0 /\ ~psb0 THEN st
       ELSE [lm |-> IF psr \/ psc \/ psb
                    THEN AssignSingle(st.lm, cell, possible_value) ELSE st.lm,
             nsr |-> IF psr0 /\ rowHit
                     THEN [st.nsr EXCEPT ![cell[1]] = @ \cup {possible_value}] ELSE st.nsr,
             nsc |-> IF psc0 /\ colHit
                     THEN [st.nsc EXCEPT ![cell[2]] = @ \cup {possible_value}] ELSE st.nsc,
             nsb |-> IF psb0 /\ blockHits # {}
                     THEN [st.nsb EXCEPT ![hb] = @ \cup {possible_value}] ELSE st.nsb]

RECURSIVE HiddenValuesFrom(_, _, _, _, _)
\* line 223: the loop runs over the list the cell had when the loop began
HiddenValuesFrom(g, st, cell, values, k) ==
    IF k > Len(values) THEN st
    ELSE HiddenValuesFrom(g, HiddenValueStep(g, st, cell, values[k]), cell, values, k + 1)

RECURSIVE HiddenSinglesFrom(_, _, _, _)
HiddenSinglesFrom(g, st, keys, k) ==
    IF k > Len(keys) THEN st
    ELSE HiddenSinglesFrom(g,
            HiddenValuesFrom(g, st, keys[k], st.lm[keys[k]], 1), keys, k + 1)

hidden_singles(g, st) ==
    LET N == BoardN(g)
        st0 == [lm |-> st.lm,
                nsr |-> [i \in 0..(N-1) |-> {}],
                nsc |-> [i \in 0..(N-1) |-> {}],
                nsb |-> [b \in (0..((N \div g.m) - 1)) \X (0..((N \div g.n) - 1)) |-> {}]]
    IN [st EXCEPT !.lm = HiddenSinglesFrom(g, st0, KeysInOrder(st.lm, N), 1).lm]

\* range(a, b, step)
RangeStep(a, b, step) == {x \in a..(b - 1) : (x - a) % step = 0}

StrikeNumber(lm, targets, number) ==
    [c \in DOMAIN lm |-> IF c \in targets THEN ListRemove(lm[c], number) ELSE lm[c]]

\* lines 26-35: range(1, N) leaves the digit N out
RowsIncompleteNumbers(g, i, allowed_in_rows) ==
    {number \in 1..(BoardN(g) - 1) :
        g.m - Cardinality({ii \in i..(i + g.m - 1) : number \notin allowed_in_rows[ii]}) >= 2}

\* lines 37-75 for one number of the band of rows starting at i.  The result
\* raises when allowed_in_blocks[(i, j)] is a KeyError
LockedRowsNumber(g, st, allowed_in_rows, allowed_in_blocks, i, number) ==
    LET N == BoardN(g)
        lm == st.lm
        js == RangeStep(0, N, g.m)
        rows_allowing_number(j) ==
            {row_index \in i..(i + g.m - 1) :
                \E col_index \in j..(j + g.n - 1) :
                    HasCandidate(lm, <<row_index, col_index>>, number)}
        newly_occupied_blocks ==
            {j \in js : number \in allowed_in_blocks[<<i, j>>]
                         /\ Cardinality(rows_allowing_number(j)) = 1}
        newly_occupied_rows == UNION {rows_allowing_number(j) : j \in newly_occupied_blocks}
        blocks_to_check ==
            {j \in js \ newly_occupied_blocks : number \in allowed_in_blocks[<<i, j>>]}
        rows_to_check ==
            {row \in i..(i + g.m - 1) :
                number \in allowed_in_rows[row] /\ row \in newly_occupied_rows}
        targets == {<<row, j>> : row \in rows_to_check,
                                 j \in UNION {b..(b + g.n - 1) : b \in blocks_to_check}}
    IN IF \E j \in js : <<i, j>> \notin DOMAIN allowed_in_blocks
       THEN [st EXCEPT !.raised = TRUE]
       ELSE Eliminate(st, StrikeNumber(lm, targets, number))

RECURSIVE LockedRowsNumbers(_, _, _, _, _, _, _)
LockedRowsNumbers(g, st, allowed_in_rows, allowed_in_blocks, i, numbers, k) ==
    IF st.raised \/ k > Len(numbers) THEN st
    ELSE LockedRowsNumbers(g,
            LockedRowsNumber(g, st, allowed_in_rows, allowed_in_blocks, i, numbers[k]),
            allowed_in_rows, allowed_in_blocks, i, numbers, k + 1)

RECURSIVE LockedRowsBands(_, _, _, _, _)
\* line 24: the bands start at multiples of columns_per_block; a band that
\* runs past the last row is an IndexError on allowed_in_rows[ii]
LockedRowsBands(g, st, allowed_in_rows, allowed_in_blocks, i) ==
    IF st.raised \/ i >= BoardN(g) THEN st
    ELSE IF i + g.m > BoardN(g) THEN [st EXCEPT !.raised = TRUE]
    ELSE LockedRowsBands(g,
            LockedRowsNumbers(g, st, allowed_in_rows, allowed_in_blocks, i,
                              SortedSeq(RowsIncompleteNumbers(g, i, allowed_in_rows)), 1),
            allowed_in_rows, allowed_in_blocks, i + g.n)

locked_candidates_rows(g, st, allowed_in_rows, allowed_in_blocks) ==
    IF g.m <= 2 THEN st
    ELSE LockedRowsBands(g, st, allowed_in_rows, allowed_in_blocks, 0)

ColumnsIncompleteNumbers(g, j, allowed_in_columns) ==
    {number \in 1..(BoardN(g) - 1) :
        g.n - Cardinality({jj \in j..(j + g.n - 1) : number \notin allowed_in_columns[jj]}) >= 2}

\* lines 109-142 for one number of the band of columns starting at j
LockedColumnsNumber(g, st, allowed_in_columns, allowed_in_blocks, j, number) ==
    LET N == BoardN(g)
        lm == st.lm
        is == {i \in RangeStep(0, N, g.n) : <<i, j>> \in DOMAIN allowed_in_blocks}
        columns_allowing_number(i) ==
            {col_index \in j..(j + g.n - 1) :
                \E row_index \in i..(i + g.m - 1) :
                    HasCandidate(lm, <<row_index, col_index>>, number)}
        newly_occupied_blocks ==
            {i \in is : number \in allowed_in_blocks[<<i, j>>]
                         /\ Cardinality(columns_allowing_number(i)) = 1}
        newly_occupied_columns ==
            UNION {columns_allowing_number(i) : i \in newly_occupied_blocks}
        blocks_to_check ==
            {i \in is \ newly_occupied_blocks : number \in allowed_in_blocks[<<i, j>>]}
        columns_to_check ==
            {col \in j..(j + g.n - 1) :
                number \in allowed_in_columns[col] /\ col \in newly_occupied_columns}
        targets == {<<i, col>> : i \in UNION {b..(b + g.m - 1) : b \in blocks_to_check},
                                 col \in columns_to_check}
    IN Eliminate(st, StrikeNumber(lm, targets, number))

RECURSIVE LockedColumnsNumbers(_, _, _, _, _, _, _)
LockedColumnsNumbers(g, st, allowed_in_columns, allowed_in_blocks, j, numbers, k) ==
    IF k > Len(numbers) THEN st
    ELSE LockedColumnsNumbers(g,
            LockedColumnsNumber(g, st, allowed_in_columns, allowed_in_blocks, j, numbers[k]),
            allowed_in_columns, allowed_in_blocks, j, numbers, k + 1)

\* line 144: the return sits inside the loop over the bands, so only the
\* band of columns starting at 0 is treated
locked_candidates_columns(g, st, allowed_in_columns, allowed_in_blocks) ==
    IF g.n <= 2 THEN st
    ELSE LockedColumnsNumbers(g, st, allowed_in_columns, allowed_in_blocks, 0,
                              SortedSeq(ColumnsIncompleteNumbers(g, 0, allowed_in_columns)), 1)

-----------------------------------------------------------------------------
(* team27_A3/helpers/heuristics.py *)

\* the dict without the cells of S (dict.pop for each)
PopAll(d, S) == [c \in DOMAIN d \ S |-> d[c]]

BlockOfCell(g, cell) == get_block_top_left_coordinates(cell[1], cell[2], g.m, g.n)

force_highest_points_moves(g, moves_under_consideration, allowed_in_rows, allowed_in_columns, allowed_in_blocks) ==
    LET forced_squares ==
            {cell \in DOMAIN moves_under_consideration :
                /\ Cardinality(allowed_in_rows[cell[1]]) = 1
                /\ Cardinality(allowed_in_columns[cell[2]]) = 1
                /\ Cardinality(allowed_in_blocks[BlockOfCell(g, cell)]) = 1
                /\ allowed_in_rows[cell[1]] = allowed_in_columns[cell[2]]
                /\ allowed_in_rows[cell[1]] = allowed_in_blocks[BlockOfCell(g, cell)]}
    IN IF forced_squares # {}
       THEN [c \in forced_squares |-> moves_under_consideration[c]]
       ELSE moves_under_consideration

\* line 107 / line 132: below this many cells the heuristics stop removing
RemoveThreshold == 5

\* a region with two digits missing counts as one that can be completed
CellCanScore_two(g, cell, allowed_in_rows, allowed_in_columns, allowed_in_blocks) ==
    \/ Cardinality(allowed_in_rows[cell[1]]) = 2
    \/ Cardinality(allowed_in_columns[cell[2]]) = 2
    \/ Cardinality(allowed_in_blocks[BlockOfCell(g, cell)]) = 2

\* lines 100-101: the cell can score now
CellCanScore(g, cell, allowed_in_rows, allowed_in_columns, allowed_in_blocks) ==
    \/ Cardinality(allowed_in_rows[cell[1]]) = 1
    \/ Cardinality(allowed_in_columns[cell[2]]) = 1
    \/ Cardinality(allowed_in_blocks[BlockOfCell(g, cell)]) = 1

\* a removal that does not spare the cells that score
CellToRemove_scoring(g, cell, allowed_in_rows, allowed_in_columns, allowed_in_blocks) ==
    \/ CellCanScore_two(g, cell, allowed_in_rows, allowed_in_columns, allowed_in_blocks)
    \/ (IF Cardinality(allowed_in_rows[cell[1]]) > 3 THEN 1 ELSE 0)
       + (IF Cardinality(allowed_in_columns[cell[2]]) > 3 THEN 1 ELSE 0)
       + (IF Cardinality(allowed_in_blocks[BlockOfCell(g, cell)]) > 3 THEN 1 ELSE 0) >= 2

\* lines 87-104: the cell is dropped from consideration
CellToRemove(g, cell, allowed_in_rows, allowed_in_columns, allowed_in_blocks) ==
    LET amount_allowed_in_row == Cardinality(allowed_in_rows[cell[1]])
        amount_allowed_in_column == Cardinality(allowed_in_columns[cell[2]])
        amount_allowed_in_block == Cardinality(allowed_in_blocks[BlockOfCell(g, cell)])
        opponent_can_finish_if_filled ==
            amount_allowed_in_row = 2 \/ amount_allowed_in_column = 2
                \/ amount_allowed_in_block = 2
        above_3_missing ==
            (IF amount_allowed_in_row > 3 THEN 1 ELSE 0)
            + (IF amount_allowed_in_column > 3 THEN 1 ELSE 0)
            + (IF amount_allowed_in_block > 3 THEN 1 ELSE 0)
    IN /\ opponent_can_finish_if_filled \/ above_3_missing >= 2
       /\ ~CellCanScore(g, cell, allowed_in_rows, allowed_in_columns, allowed_in_blocks)

\* a removal that knows no floor
remove_moves_without_floor(g, moves_under_consideration, allowed_in_rows, allowed_in_columns, allowed_in_blocks) ==
    [moves |-> PopAll(moves_under_consideration,
                      {cell \in DOMAIN moves_under_consideration :
                          CellToRemove(g, cell, allowed_in_rows, allowed_in_columns,
                                       allowed_in_blocks)}),
     can_score |-> \E cell \in DOMAIN moves_under_consideration :
                      CellCanScore(g, cell, allowed_in_rows, allowed_in_columns,
                                   allowed_in_blocks)]

\* the result is [moves, can_score].  In the else branch the sample is drawn
\* but the cells popped are to_remove[0 .. len(subset) - 1]
remove_moves_that_allows_opponent_to_score(g, moves_under_consideration, allowed_in_rows, allowed_in_columns, allowed_in_blocks) ==
    LET N == BoardN(g)
        to_remove ==
            CellsInOrder({cell \in DOMAIN moves_under_consideration :
                            CellToRemove(g, cell, allowed_in_rows, allowed_in_columns,
                                         allowed_in_blocks)}, N, 0)
        can_score_overall ==
            \E cell \in DOMAIN moves_under_consideration :
                CellCanScore(g, cell, allowed_in_rows, allowed_in_columns, allowed_in_blocks)
        size == Cardinality(DOMAIN moves_under_consideration)
        popped == IF size - Len(to_remove) > RemoveThreshold
                  THEN Range(to_remove)
                  ELSE {to_remove[i] : i \in 1..Max2(size - RemoveThreshold, 0)}
    IN [moves |-> PopAll(moves_under_consideration, popped),
        can_score |-> can_score_overall]

\* lines 127-130 of one_move_per_square: the cells with more than one option
SeveralOptions(moves_under_consideration) ==
    {key \in DOMAIN moves_under_consideration : Len(moves_under_consideration[key]) > 1}

\* the samples random.sample can draw in one_move_per_square (as sets: the
\* order in which the cells are popped does not matter); the one sample
\* {} stands for the branch that draws none
OneMoveSamples(moves_under_consideration) ==
    LET to_remove == SeveralOptions(moves_under_consideration)
        size == Cardinality(DOMAIN moves_under_consideration)
    IN IF size - Cardinality(to_remove) > RemoveThreshold THEN {{}}
       ELSE {subset \in SUBSET to_remove :
                Cardinality(subset) = Max2(size - RemoveThreshold, 0)}

one_move_per_square(moves_under_consideration, subset) ==
    LET to_remove == SeveralOptions(moves_under_consideration)
        size == Cardinality(DOMAIN moves_under_consideration)
    IN IF size - Cardinality(to_remove) > RemoveThreshold
       THEN PopAll(moves_under_consideration, to_remove)
       ELSE PopAll(moves_under_consideration, subset)

-----------------------------------------------------------------------------
(* team27_A3/sudokuai.py: SudokuAI.get_valuable_moves *)

RECURSIVE Shuffles(_)
\* the orders random.shuffle can leave a list of the elements of S in
Shuffles(S) ==
    IF S = {} THEN {<<>>}
    ELSE UNION {{<<x>> \o p : p \in Shuffles(S \ {x})} : x \in S}

RECURSIVE MovesOfCells(_, _, _)
\* lines 257-260: the dict written to a list of moves, cell by cell
MovesOfCells(lm, keys, k) ==
    IF k > Len(keys) THEN <<>>
    ELSE [x \in 1..Len(lm[keys[k]]) |-> Move(keys[k][1], keys[k][2], lm[keys[k]][x])]
         \o MovesOfCells(lm, keys, k + 1)

\* lines 262-265: the taboo moves found, as TabooMove objects
TabooMovesOf(taboo) == {TabooMove(e[1][1], e[1][2], e[2]) : e \in taboo}

\* a call of a pass; an exception raised earlier has ended the function
ObviousSinglesCall(g, st) == IF st.raised THEN st ELSE obvious_singles(g, st)
HiddenSinglesCall(g, st) == IF st.raised THEN st ELSE hidden_singles(g, st)
LockedRowsCall(g, cm, st) ==
    IF st.raised THEN st ELSE locked_candidates_rows(g, st, cm.rows, cm.blocks)
LockedColumnsCall(g, cm, st) ==
    IF st.raised THEN st ELSE locked_candidates_columns(g, st, cm.columns, cm.blocks)

\* lines 225-232: the six calls of the passes
TabooPasses(g, cm) ==
    HiddenSinglesCall(g,
        ObviousSinglesCall(g,
            LockedColumnsCall(g, cm,
                LockedRowsCall(g, cm,
                    HiddenSinglesCall(g,
                        ObviousSinglesCall(g, NoTaboo(cm.legal_moves)))))))

\* lines 276-279: the test of a move that "scores"
ScoresPoints(g, move, rows, columns, blocks) ==
    \/ Cardinality(rows[move.i]) = 1
    \/ Cardinality(columns[move.j]) # 0
    \/ Cardinality(blocks[get_block_top_left_coordinates(move.i, move.j, g.m, g.n)]) # 0

RECURSIVE SortedMovesList(_, _, _, _, _, _, _)
\* lines 274-281: a move that passes the test goes to the front, another to the end
SortedMovesList(g, sorted_moves_list, moves_list, k, rows, columns, blocks) ==
    IF k > Len(moves_list) THEN sorted_moves_list
    ELSE SortedMovesList(g,
            IF ScoresPoints(g, moves_list[k], rows, columns, blocks)
            THEN <<moves_list[k]>> \o sorted_moves_list
            ELSE Append(sorted_moves_list, moves_list[k]),
            moves_list, k + 1, rows, columns, blocks)

\* the call raised an exception
Raised == [moves |-> <<>>, taboo |-> <<>>, can_score |-> FALSE, raised |-> TRUE]

\* lines 257-260 and 267: the lists random.shuffle can leave of the moves
MovesLists(lm, N) == Shuffles(Range(MovesOfCells(lm, KeysInOrder(lm, N), 1)))

\* lines 267-283: the result for one outcome of the two shuffles
ValuableResult(g, cm, can_score, moves_list, taboo_list) ==
    [moves |-> IF can_score
               THEN SortedMovesList(g, <<>>, moves_list, 1, cm.rows, cm.columns, cm.blocks)
               ELSE moves_list,
     taboo |-> taboo_list,
     can_score |-> can_score,
     raised |-> FALSE]

\* lines 251-283, from the result rm of remove_moves_that_allows_opponent_to_score
ValuableAfterRemove(g, cm, taboo, rm) ==
    {ValuableResult(g, cm, rm.can_score, moves_list, taboo_list) :
        moves_list \in UNION {MovesLists(one_move_per_square(rm.moves, subset), BoardN(g)) :
                                subset \in OneMoveSamples(rm.moves)},
        taboo_list \in Shuffles(TabooMovesOf(taboo))}

\* lines 237-251, from the state st the passes have left
ValuableAfterPasses(g, cm, st) ==
    IF st.raised THEN {Raised}
    ELSE ValuableAfterRemove(g, cm, st.taboo,
            remove_moves_that_allows_opponent_to_score(g,
                force_highest_points_moves(g,
                    PopAll(st.lm, {c \in DOMAIN st.lm : st.lm[c] = <<>>}),
                    cm.rows, cm.columns, cm.blocks),
                cm.rows, cm.columns, cm.blocks))

ValuableFrom(g, cm) == ValuableAfterPasses(g, cm, TabooPasses(g, cm))

\* The results get_valuable_moves(game_state) can return, one for each
\* outcome of random.sample and the two random.shuffle calls:
\* [moves, taboo, can_score, raised]
get_valuable_moves(g) == ValuableFrom(g, compute_all_legal_moves(g))

-----------------------------------------------------------------------------
(* team27_A3/sudokuai.py: Node.extend_node, evaluate and minimax *)

\* the evaluation adds multiples of 0.1 to the score: values are counted in
\* tenths, and so are the sentinels and the window they are compared with
Tenths == 10

\* line 58: with this many taboo moves or more none is played
TabooCutoff == 20

\* lines 71-88
want_to_play_taboo(g, can_score) ==
    IF can_score THEN FALSE
    ELSE even_number_of_squares_left(g) /\ board_half_filled_in(g)

\* lines 33-43: a node that has not been extended
Node(game_state) == [game_state |-> game_state, children |-> <<>>, playing_taboo |-> FALSE]

\* lines 56-69: the children and the flag extend_node gives the node of game
\* state g from one result r of get_valuable_moves
extend_node(g, r) ==
    IF /\ 0 < Len(r.taboo) /\ Len(r.taboo) < TabooCutoff
       /\ Len(r.taboo) % 2 = 1
       /\ want_to_play_taboo(g, r.can_score)
    THEN [children |-> <<Node(SimulatedState(g, r.taboo[1], TRUE))>>,
          playing_taboo |-> TRUE]
    ELSE [children |-> [k \in 1..Len(r.moves) |->
                          Node(SimulatedState(g, r.moves[k], FALSE))],
          playing_taboo |-> FALSE]

\* how many of the regions have exactly k empty squares
Occurrences(g, regions, k) ==
    Cardinality({region \in regions :
                    Cardinality({c \in region : g.board[c] = 0}) = k})

AllColumns(N) == {ColumnCells(j, N) : j \in 0..(N - 1)}
AllRows(N) == {RowCells(i, N) : i \in 0..(N - 1)}
AllBlocks(g) ==
    {{c \in Cells(BoardN(g)) : get_block_top_left_coordinates(c[1], c[2], g.m, g.n) = b} :
        b \in all_block_indices(g)}

\* lines 337-357, in tenths: +0.2 for a region with one empty square, -0.1
\* for one with two
potential_points(g) ==
    2 * Occurrences(g, AllColumns(BoardN(g)), 1) - Occurrences(g, AllColumns(BoardN(g)), 2)
    + 2 * Occurrences(g, AllRows(BoardN(g)), 1) - Occurrences(g, AllRows(BoardN(g)), 2)
    + 2 * Occurrences(g, AllBlocks(g), 1) - Occurrences(g, AllBlocks(g), 2)

\* an evaluation that adds the potential points whoever is to play
evaluate_unsigned(g) ==
    IF board_filled_in(g) THEN Tenths * (g.scores[1] - g.scores[2])
    ELSE Tenths * (g.scores[1] - g.scores[2]) + potential_points(g)

\* lines 286-365, in tenths
evaluate(g) ==
    IF board_filled_in(g) THEN Tenths * (g.scores[1] - g.scores[2])
    ELSE IF Len(g.moves) % 2 = 0
         THEN Tenths * (g.scores[1] - g.scores[2]) + potential_points(g)
         ELSE Tenths * (g.scores[1] - g.scores[2]) - potential_points(g)

\* Python's None where a move is expected
None == [i |-> -1, j |-> -1, value |-> 0, kind |-> "None"]

LastMove(g) == g.moves[Len(g.moves)]

RECURSIVE Pick(_, _)
\* the k-th element of S, in an enumeration of S that is fixed
Pick(S, k) ==
    IF k = 0 THEN CHOOSE x \in S : TRUE
    ELSE Pick(S \ {CHOOSE x \in S : TRUE}, k - 1)

\* The random generator is seeded once: the draws made when a node below the
\* root is extended are a function of the seed rnd and of the node's history
Draw(S, g, rnd) ==
    Pick(S, (rnd + Len(g.moves)
                 + (IF g.moves = <<>> THEN 0
                    ELSE LastMove(g).i * BoardN(g) + LastMove(g).j)) % Cardinality(S))

\* the node during a call of minimax on it, with what the call has done so
\* far: whether an exception was raised, the game states extend_node has run
\* on and the states evaluate was called for, with the values returned
Visit(node, raised, expanded) ==
    [game_state |-> node.game_state, children |-> node.children,
     playing_taboo |-> node.playing_taboo,
     raised |-> raised, expanded |-> expanded, leaves |-> <<>>]

\* line 156: node.extend_node(), r being the result of get_valuable_moves
ExtendWith(node, r) ==
    IF r.raised THEN Visit(node, TRUE, <<node.game_state>>)
    ELSE Visit([node EXCEPT
                  !.children = extend_node(node.game_state, r).children,
                  !.playing_taboo = extend_node(node.game_state, r).playing_taboo],
               FALSE, <<node.game_state>>)

\* lines 155-156: the node is extended if it has no children
ChildrenNow(node, rnd) ==
    IF Len(node.children) = 0
    THEN ExtendWith(node, Draw(get_valuable_moves(node.game_state), node.game_state, rnd))
    ELSE Visit(node, FALSE, <<>>)

\* line 159 and line 181: the values a node without children returns
MaxStart == -100000
MinStart == 1000000
\* line 121: the window of the call on the root
Alpha0 == -100000
Beta0 == 100000

Result(value, move) == [value |-> value, move |-> move, raised |-> FALSE]
RaisedResult == [value |-> 0, move |-> None, raised |-> TRUE]

\* lines 150-151: return self.evaluate(node.game_state), None
LeafResult(node) ==
    [value |-> evaluate(node.game_state), move |-> None, raised |-> FALSE,
     node |-> node, expanded |-> <<>>,
     leaves |-> <<[game_state |-> node.game_state,
                   value |-> evaluate(node.game_state)]>>]

\* lines 177 and 197: return value, best_move; the node keeps its children
Returned(ch, value, best_move) ==
    [value |-> value, move |-> best_move, raised |-> FALSE,
     node |-> [game_state |-> ch.game_state, children |-> ch.children,
               playing_taboo |-> ch.playing_taboo],
     expanded |-> ch.expanded, leaves |-> ch.leaves]

\* the k-th child after the recursive call on it that returned new
Absorb(ch, k, new) ==
    [ch EXCEPT !.children[k] = new.node,
               !.expanded = ch.expanded \o new.expanded,
               !.leaves = ch.leaves \o new.leaves]

RECURSIVE minimax(_, _, _, _, _, _)
RECURSIVE MaxLoop(_, _, _, _, _, _, _, _)
RECURSIVE MinLoop(_, _, _, _, _, _, _, _)

\* lines 172-177
MaxCut(ch, k, depth, value, best_move, alpha, beta, rnd) ==
    IF value >= beta THEN Returned(ch, value, best_move)
    ELSE MaxLoop(ch, k + 1, depth, value, best_move, Max2(alpha, value), beta, rnd)

\* lines 166-170, new being what minimax returned for the k-th child
MaxStep(ch, k, depth, value, best_move, alpha, beta, rnd, new) ==
    IF new.raised THEN RaisedResult
    ELSE IF new.value > value
         THEN MaxCut(Absorb(ch, k, new), k, depth, new.value,
                     LastMove(ch.children[k].game_state), alpha, beta, rnd)
         ELSE MaxCut(Absorb(ch, k, new), k, depth, value, best_move, alpha, beta, rnd)

\* lines 162-177
MaxLoop(ch, k, depth, value, best_move, alpha, beta, rnd) ==
    IF k > Len(ch.children) THEN Returned(ch, value, best_move)
    ELSE MaxStep(ch, k, depth, value, best_move, alpha, beta, rnd,
                 minimax(ch.children[k], depth - 1, FALSE, alpha, beta, rnd))

\* a cutoff that compares the value with the wrong end of the window
MinCut_beta(ch, k, depth, value, best_move, alpha, beta, rnd) ==
    IF value <= beta THEN Returned(ch, value, best_move)
    ELSE MinLoop(ch, k + 1, depth, value, best_move, alpha, Min2(beta, value), rnd)

\* lines 193-197
MinCut(ch, k, depth, value, best_move, alpha, beta, rnd) ==
    IF value <= alpha THEN Returned(ch, value, best_move)
    ELSE MinLoop(ch, k + 1, depth, value, best_move, alpha, Min2(beta, value), rnd)

\* lines 188-192
MinStep(ch, k, depth, value, best_move, alpha, beta, rnd, new) ==
    IF new.raised THEN RaisedResult
    ELSE IF new.value < value
         THEN MinCut(Absorb(ch, k, new), k, depth, new.value,
                     LastMove(ch.children[k].game_state), alpha, beta, rnd)
         ELSE MinCut(Absorb(ch, k, new), k, depth, value, best_move, alpha, beta, rnd)

\* lines 184-197
MinLoop(ch, k, depth, value, best_move, alpha, beta, rnd) ==
    IF k > Len(ch.children) THEN Returned(ch, value, best_move)
    ELSE MinStep(ch, k, depth, value, best_move, alpha, beta, rnd,
                 minimax(ch.children[k], depth - 1, TRUE, alpha, beta, rnd))

\* lines 157-197, ch being the node after lines 155-156
MinimaxOver(ch, depth, maximizing_player, alpha, beta, rnd) ==
    IF ch.raised THEN RaisedResult
    ELSE IF maximizing_player
         THEN MaxLoop(ch, 1, depth, Tenths * MaxStart, None, alpha, beta, rnd)
         ELSE MinLoop(ch, 1, depth, Tenths * MinStart, None, alpha, beta, rnd)

\* SudokuAI.minimax: the value (in tenths) and the move returned, the node
\* with the subtree the call has built, and what the call has done
minimax(node, depth, maximizing_player, alpha, beta, rnd) ==
    IF depth = 0 \/ board_filled_in(node.game_state)
    THEN LeafResult(node)
    ELSE MinimaxOver(ChildrenNow(node, rnd), depth, maximizing_player, alpha, beta, rnd)

-----------------------------------------------------------------------------
(* team27_A1/sudokuai.py: minimax on game states, the values whole numbers *)

\* lines 307-313
A1_evaluate(g) == g.scores[1] - g.scores[2]

RECURSIVE A1_minimax(_, _, _, _, _)
RECURSIVE A1_MaxLoop(_, _, _, _, _, _, _, _)
RECURSIVE A1_MinLoop(_, _, _, _, _, _, _, _)

\* lines 228-231: the cutoff is tested before alpha is raised
A1_MaxCut(g, moves, k, depth, value, best_move, alpha, beta) ==
    IF value >= beta THEN Result(value, best_move)
    ELSE A1_MaxLoop(g, moves, k + 1, depth, value, best_move, Max2(alpha, value), beta)

\* lines 224-226
A1_MaxStep(g, moves, k, depth, value, best_move, alpha, beta, new) ==
    IF new.value > value
    THEN A1_MaxCut(g, moves, k, depth, new.value, moves[k], alpha, beta)
    ELSE A1_MaxCut(g, moves, k, depth, value, best_move, alpha, beta)

\* lines 218-232
A1_MaxLoop(g, moves, k, depth, value, best_move, alpha, beta) ==
    IF k > Len(moves) THEN Result(value, best_move)
    ELSE A1_MaxStep(g, moves, k, depth, value, best_move, alpha, beta,
                    A1_minimax(SimulatedState(g, moves[k], FALSE), depth - 1, FALSE,
                               alpha, beta))

\* lines 246-249: beta becomes the larger of beta and the value
A1_MinCut(g, moves, k, depth, value, best_move, alpha, beta) ==
    IF value <= alpha THEN Result(value, best_move)
    ELSE A1_MinLoop(g, moves, k + 1, depth, value, best_move, alpha, Max2(beta, value))

\* lines 242-244
A1_MinStep(g, moves, k, depth, value, best_move, alpha, beta, new) ==
    IF new.value < value
    THEN A1_MinCut(g, moves, k, depth, new.value, moves[k], alpha, beta)
    ELSE A1_MinCut(g, moves, k, depth, value, best_move, alpha, beta)

\* lines 236-250
A1_MinLoop(g, moves, k, depth, value, best_move, alpha, beta) ==
    IF k > Len(moves) THEN Result(value, best_move)
    ELSE A1_MinStep(g, moves, k, depth, value, best_move, alpha, beta,
                    A1_minimax(SimulatedState(g, moves[k], FALSE), depth - 1, TRUE,
                               alpha, beta))

\* lines 196-250
A1_minimax(g, depth, maximizing_player, alpha, beta) ==
    IF depth = 0 \/ board_filled_in(g) THEN Result(A1_evaluate(g), None)
    ELSE IF maximizing_player
         THEN A1_MaxLoop(g, A1_compute_all_legal_moves(g), 1, depth, MaxStart, None,
                         alpha, beta)
         ELSE A1_MinLoop(g, A1_compute_all_legal_moves(g), 1, depth, MinStart, None,
                         alpha, beta)

-----------------------------------------------------------------------------
(* Initial game states: a solved board with some cells emptied *)

\* a solved board for blocks of m rows and n columns
Solution(m, n) ==
    [c \in Cells(m * n) |-> ((n * (c[1] % m) + (c[1] \div m) + c[2]) % (m * n)) + 1]

\* the cells an initial state may have empty: three cells of the first block
\* and the first cell of the blocks to its right, below it and diagonal to it
HoleCells(m, n) == {<<0, 0>>, <<0, 1>>, <<1, 1>>, <<0, n>>, <<m, 0>>, <<m, n>>}

SubsetsUpTo(S, k) == {T \in SUBSET S : Cardinality(T) <= k}

\* the move, if any, that was played before the initial state (on the last cell)
Histories(m, n) ==
    {<<>>, <<Move(m * n - 1, m * n - 1, Solution(m, n)[<<m * n - 1, m * n - 1>>])>>}

\* taboo moves the referee may have recorded: any digit on the first empty
\* cell, and one on the last cell, which has been filled since
TabooUniverse(holes, N) ==
    {<<c[1], c[2], v>> : c \in (IF holes = {} THEN {} ELSE {FirstCell(holes, N)}),
                         v \in 1..N} \cup {<<N - 1, N - 1, 1>>}

InitialState(m, n, holes, h, t) ==
    [m |-> m, n |-> n,
     board |-> [c \in Cells(m * n) |-> IF c \in holes THEN 0 ELSE Solution(m, n)[c]],
     moves |-> h,
     scores |-> IF h = <<>> THEN <<0, 0>> ELSE <<1, 0>>,
     taboo_moves |-> t]

InitialStates(m, n, maxEmpty, maxTaboo) ==
    UNION {{InitialState(m, n, holes, h, t) :
                h \in Histories(m, n),
                t \in SubsetsUpTo(TabooUniverse(holes, m * n), maxTaboo)} :
            holes \in SubsetsUpTo(HoleCells(m, n), maxEmpty)}

-----------------------------------------------------------------------------
(* The helper calls, one action per call on the caller's game_state store[1] *)

NoArg == [move |-> Move(0, 0, 0), taboo_move |-> FALSE, before |-> <<>>]

\* no compute_best_move is running
EngineIdle ==
    /\ agent = ""
    /\ pc = "idle"
    /\ root = Node(0)
    /\ iter = 0
    /\ log = <<>>
    /\ seed = 0

InitHelpers ==
    /\ \E g \in InitialStates(Rows2, Cols2, MaxEmpty, MaxTaboo) : store = <<g>>
    /\ op = "init"
    /\ arg = NoArg
    /\ out = 0
    /\ plies = 0
    /\ EngineIdle

CallComputeAllLegalMoves ==
    /\ op = "init"
    /\ store' = store
    /\ op' = "compute_all_legal_moves"
    /\ arg' = [NoArg EXCEPT !.before = store]
    /\ out' = [a3 |-> compute_all_legal_moves(store[1]),
                a1 |-> A1_compute_all_legal_moves(store[1])]
    /\ UNCHANGED <<plies, engineVars>>

\* the moves the search simulates are candidates of an empty cell: a legal
\* move, or (taboo variant) a candidate that inference has eliminated
CallSimulateMove ==
    /\ op = "init"
    /\ \E c \in EmptyCells(store[1]), v \in 1..BoardN(store[1]), taboo_move \in BOOLEAN :
        /\ v \in Range(compute_all_legal_moves(store[1]).legal_moves[c])
        /\ LET r == simulate_move(<<store[1]>>, 1, Move(c[1], c[2], v), taboo_move)
           IN /\ store' = r.store
              /\ out' = r.ref
        /\ op' = "simulate_move"
        /\ arg' = [move |-> Move(c[1], c[2], v), taboo_move |-> taboo_move,
                   before |-> <<store[1]>>]
        /\ UNCHANGED <<plies, engineVars>>

\* the same call once more, on the same object and with the same move
CallSimulateMoveAgain ==
    /\ op = "simulate_move"
    /\ LET r == simulate_move(store, 1, arg.move, arg.taboo_move)
       IN /\ store' = r.store
          /\ out' = r.ref
    /\ op' = "simulate_move_again"
    /\ arg' = arg
    /\ UNCHANGED <<plies, engineVars>>

\* get_valuable_moves(game_state), with any outcome of its random draws
CallGetValuableMoves ==
    /\ op = "init"
    /\ \E r \in get_valuable_moves(store[1]) : out' = r
    /\ op' = "get_valuable_moves"
    /\ arg' = [NoArg EXCEPT !.before = store]
    /\ UNCHANGED <<store, plies, engineVars>>

\* the caller goes on with the successor state (the search descends one ply)
Descend ==
    /\ op = "simulate_move"
    /\ ~arg.taboo_move
    /\ plies < MaxPlies
    /\ store' = <<store[out]>>
    /\ op' = "init"
    /\ arg' = NoArg
    /\ out' = 0
    /\ plies' = plies + 1
    /\ UNCHANGED engineVars

NextHelpers ==
    \/ CallComputeAllLegalMoves
    \/ CallSimulateMove
    \/ CallSimulateMoveAgain
    \/ CallGetValuableMoves
    \/ Descend

Spec == InitHelpers /\ [][NextHelpers]_vars

-----------------------------------------------------------------------------
(* Claims about the helpers *)

SameBlock(c, d, m, n) == c[1] \div m = d[1] \div m /\ c[2] \div n = d[2] \div n

\* the digits that occur nowhere in the row, the column and the block of c
AbsentDigits(g, c) ==
    {v \in 1..BoardN(g) :
        \A d \in Cells(BoardN(g)) :
            (d[1] = c[1] \/ d[2] = c[2] \/ SameBlock(c, d, g.m, g.n)) => g.board[d] # v}

NoRepeats(s) == Cardinality(Range(s)) = Len(s)

\* C1: compute_all_legal_moves returns a map whose keys are exactly the empty
\* cells and whose value for an empty cell is exactly the digits absent from
\* its row, its column and its block, minus the taboo moves of the game
\* state on that cell; the board is not modified.  (A3's dict and A1's list.)
C1_LegalMovesExact ==
    op = "compute_all_legal_moves" =>
        LET g == arg.before[1]
            legal == [c \in EmptyCells(g) |->
                        {v \in AbsentDigits(g, c) : <<c[1], c[2], v>> \notin g.taboo_moves}]
        IN /\ DOMAIN out.a3.legal_moves = EmptyCells(g)
           /\ \A c \in EmptyCells(g) :
                /\ Range(out.a3.legal_moves[c]) = legal[c]
                /\ NoRepeats(out.a3.legal_moves[c])
           /\ Range(out.a1) = UNION {{Move(c[1], c[2], v) : v \in legal[c]} : c \in EmptyCells(g)}
           /\ NoRepeats(out.a1)
           /\ store = arg.before

\* a taboo move of the game state struck a digit that the row, column and
\* block of an empty cell allow, on a board with another empty cell
C1_Witness ==
    /\ op = "compute_all_legal_moves"
    /\ Cardinality(EmptyCells(store[1])) >= 2
    /\ \E t \in store[1].taboo_moves :
        /\ <<t[1], t[2]>> \in EmptyCells(store[1])
        /\ t[3] \in AbsentDigits(store[1], <<t[1], t[2]>>)
        /\ t[3] \notin Range(out.a3.legal_moves[<<t[1], t[2]>>])

\* C2: simulate_move never mutates its input (normal and taboo variant), and
\* the same call made twice on the same state yields successors with
\* identical boards, histories and scores.
C2_SimulateLeavesInput ==
    /\ op \in {"simulate_move", "simulate_move_again"} =>
        store[1] = arg.before[1]
    /\ op = "simulate_move_again" =>
        /\ store[3].board = store[2].board
        /\ store[3].moves = store[2].moves
        /\ store[3].scores = store[2].scores

\* the second of two equal normal calls has returned, and the move scored
C2_Witness ==
    /\ op = "simulate_move_again"
    /\ ~arg.taboo_move
    /\ store[3].scores # store[1].scores
    /\ store[3].board # store[1].board

RowOf(c, N) == {d \in Cells(N) : d[1] = c[1]}
ColumnOf(c, N) == {d \in Cells(N) : d[2] = c[2]}
BlockOf(c, N, m, n) == {d \in Cells(N) : SameBlock(c, d, m, n)}

Full(g, region) == \A d \in region : g.board[d] # 0

\* how many of the row, the column and the block of cell c are full in g
RegionsFull(g, c) ==
    (IF Full(g, RowOf(c, BoardN(g))) THEN 1 ELSE 0)
    + (IF Full(g, ColumnOf(c, BoardN(g))) THEN 1 ELSE 0)
    + (IF Full(g, BlockOf(c, BoardN(g), g.m, g.n)) THEN 1 ELSE 0)

PointsTable == <<1, 3, 7>>

\* C3: a non-taboo move onto an empty cell credits exactly the player to move
\* (player 1 iff the history has even length) with 0, 1, 3 or 7 points for
\* 0, 1, 2 or 3 completed regions among the row, column and block of the
\* move; the other player's score is unchanged.
C3_ScoringTable ==
    (op = "simulate_move" /\ ~arg.taboo_move) =>
        LET s == arg.before[1]
            t == store[out]
            k == RegionsFull(t, <<arg.move.i, arg.move.j>>)
            mover == IF Len(s.moves) % 2 = 0 THEN 1 ELSE 2
        IN /\ t.scores[mover] = s.scores[mover] + (IF k = 0 THEN 0 ELSE PointsTable[k])
           /\ t.scores[3 - mover] = s.scores[3 - mover]

\* a move filled the last cell of its row while its column and its block
\* stay open, and the mover got exactly one point
C3_Witness ==
    /\ op = "simulate_move"
    /\ ~arg.taboo_move
    /\ LET t == store[out]
           c == <<arg.move.i, arg.move.j>>
       IN /\ Full(t, RowOf(c, BoardN(t)))
          /\ ~Full(t, ColumnOf(c, BoardN(t)))
          /\ ~Full(t, BlockOf(c, BoardN(t), t.m, t.n))
          /\ t.scores[2] = arg.before[1].scores[2] + 1

\* C4: the taboo variant returns a successor with the board and both scores
\* of the input and the input history with exactly the taboo move appended:
\* the player to move flips and the number of empty cells stays the same.
C4_TabooVariant ==
    (op = "simulate_move" /\ arg.taboo_move) =>
        LET s == arg.before[1]
            t == store[out]
        IN /\ t.board = s.board
           /\ t.scores = s.scores
           /\ t.moves = Append(s.moves, TabooMove(arg.move.i, arg.move.j, arg.move.value))
           /\ Len(t.moves) % 2 # Len(s.moves) % 2
           /\ Cardinality(EmptyCells(t)) = Cardinality(EmptyCells(s))

\* the taboo variant ran for player 2 on a board with empty cells
C4_Witness ==
    /\ op = "simulate_move"
    /\ arg.taboo_move
    /\ Len(arg.before[1].moves) % 2 = 1
    /\ Len(store[out].moves) = Len(arg.before[1].moves) + 1
    /\ Cardinality(EmptyCells(store[out])) >= 2

\* the digits a region of the board misses
MissingIn(g, region) == (1..BoardN(g)) \ {g.board[d] : d \in region}

\* C8: on a 4x4 board with one empty cell c whose row, column and block each
\* miss only the digit 3 and no taboo move on c, get_valuable_moves returns
\* the one-move list [(c, 3)] and can_score = true
C8_SingleCellScenario ==
    (/\ op = "get_valuable_moves"
     /\ store[1].m = 2 /\ store[1].n = 2
     /\ Cardinality(EmptyCells(store[1])) = 1) =>
        \A c \in EmptyCells(store[1]) :
            (/\ MissingIn(store[1], RowOf(c, 4)) = {3}
             /\ MissingIn(store[1], ColumnOf(c, 4)) = {3}
             /\ MissingIn(store[1], BlockOf(c, 4, 2, 2)) = {3}
             /\ \A t \in store[1].taboo_moves : <<t[1], t[2]>> # c) =>
                /\ ~out.raised
                /\ out.moves = <<Move(c[1], c[2], 3)>>
                /\ out.can_score = TRUE

\* the call was made on the board whose only empty cell is (0, 2), missing 3
C8_Witness ==
    /\ op = "get_valuable_moves"
    /\ EmptyCells(store[1]) = {<<0, 2>>}
    /\ MissingIn(store[1], RowOf(<<0, 2>>, 4)) = {3}
    /\ store[1].taboo_moves = {}
    /\ out.moves = <<Move(0, 2, 3)>>

-----------------------------------------------------------------------------
(* Taboo inference as a state machine: the passes run one at a time, in any *)
(* order, on the candidate map of a board.                                   *)
(*   store = <<game_state>>; out = the dict, the three region maps and the   *)
(*   taboo moves found;                                                      *)
(*   arg.before = the dict before the last pass; arg.eliminated = every      *)
(*   (cell, value) struck by a pass so far                                   *)

\* the cells a board given to taboo inference may have empty: the first band
\* of a small board; on the standard board, cells of the first band and the
\* first stack whose digits are below 8
TabooHoleCells(m, n) ==
    IF m * n <= 4 THEN (0..(m - 1)) \X (0..(m * n - 1))
    ELSE {<<0, 0>>, <<1, 0>>, <<2, 0>>, <<0, 2>>, <<1, 6>>, <<2, 3>>,
          <<3, 2>>, <<6, 0>>, <<6, 1>>, <<6, 2>>}

TabooShapes == {<<Rows2, Cols2>>, <<Rows3, Cols3>>}

TabooStates(maxEmpty, maxTaboo) ==
    UNION {UNION {{InitialState(sh[1], sh[2], holes, <<>>, t) :
                      t \in SubsetsUpTo(TabooUniverse(holes, sh[1] * sh[2]), maxTaboo)} :
                  holes \in SubsetsUpTo(TabooHoleCells(sh[1], sh[2]), maxEmpty)} :
           sh \in TabooShapes}

Candidates(lm) == UNION {{<<c, v>> : v \in Range(lm[c])} : c \in DOMAIN lm}

InitTaboo ==
    /\ \E g \in TabooStates(MaxTabooEmpty, MaxTaboo) :
          /\ store = <<g>>
          /\ out = [legal_moves |-> compute_all_legal_moves(g).legal_moves,
                    rows |-> compute_all_legal_moves(g).rows,
                    columns |-> compute_all_legal_moves(g).columns,
                    blocks |-> compute_all_legal_moves(g).blocks,
                    taboo_moves |-> {},
                    raised |-> FALSE]
          /\ arg = [before |-> compute_all_legal_moves(g).legal_moves, eliminated |-> {}]
    /\ op = "compute_all_legal_moves"
    /\ plies = 0
    /\ EngineIdle

PassNames ==
    {"obvious_singles", "hidden_singles", "locked_candidates_rows", "locked_candidates_columns"}

\* the named pass on the dict and the taboo moves of o
RunPass(name, g, o) ==
    LET st == [lm |-> o.legal_moves, taboo |-> o.taboo_moves, raised |-> o.raised]
    IN CASE name = "obvious_singles" -> obvious_singles(g, st)
         [] name = "hidden_singles" -> hidden_singles(g, st)
         [] name = "locked_candidates_rows" ->
                locked_candidates_rows(g, st, o.rows, o.blocks)
         [] name = "locked_candidates_columns" ->
                locked_candidates_columns(g, st, o.columns, o.blocks)

\* the pass has run: its result replaces the dict, and what it struck is logged
PassDone(name) ==
    LET r == RunPass(name, store[1], out)
    IN /\ out' = [out EXCEPT !.legal_moves = r.lm, !.taboo_moves = r.taboo,
                              !.raised = r.raised]
       /\ arg' = [before |-> out.legal_moves,
                  eliminated |-> arg.eliminated \cup
                                 (Candidates(out.legal_moves) \ Candidates(r.lm))]
       /\ op' = name
       /\ UNCHANGED <<store, plies, engineVars>>

PassObviousSingles ==
    /\ ~out.raised
    /\ PassDone("obvious_singles")

PassHiddenSingles ==
    /\ ~out.raised
    /\ PassDone("hidden_singles")

PassLockedCandidatesRows ==
    /\ ~out.raised
    /\ PassDone("locked_candidates_rows")

PassLockedCandidatesColumns ==
    /\ ~out.raised
    /\ PassDone("locked_candidates_columns")

NextTaboo ==
    \/ PassObviousSingles
    \/ PassHiddenSingles
    \/ PassLockedCandidatesRows
    \/ PassLockedCandidatesColumns

SpecTaboo == InitTaboo /\ [][NextTaboo]_vars

\* C7: a taboo-inference pass never adds a cell key or a digit to the
\* candidate map, a candidate struck by any earlier pass is still absent, and
\* a pass that struck nothing strikes nothing when it is run again
C7_TabooMonotonic ==
    op \in PassNames =>
        /\ DOMAIN out.legal_moves \subseteq DOMAIN arg.before
        /\ \A c \in DOMAIN out.legal_moves :
              Range(out.legal_moves[c]) \subseteq Range(arg.before[c])
        /\ arg.eliminated \cap Candidates(out.legal_moves) = {}
        /\ (out.legal_moves = arg.before /\ ~out.raised) =>
              RunPass(op, store[1], out).lm = out.legal_moves

\* a pass has struck a candidate after an earlier pass had struck another
C7_Witness ==
    /\ op \in PassNames
    /\ out.legal_moves # arg.before
    /\ arg.eliminated \ (Candidates(arg.before) \ Candidates(out.legal_moves)) # {}

-----------------------------------------------------------------------------
(* compute_best_move of A3 and of A1 as a process.                           *)
(*   pc: "start" -> "extended" (A3: the root has been extended) -> "search"  *)
(*   (the first move has been proposed) -> "returned"; "raised" when an      *)
(*   exception has ended the call.                                           *)
(*   log: the propose_move and minimax calls made so far; op, arg and out    *)
(*   hold the last minimax call and what it returned.                        *)

\* line 100: the loop of A3 stops before this depth
max_depth == 20

Agents == {"A1", "A3"}

\* the depths up to which the loop is followed on the root's board
FollowedTo(g) ==
    IF Cardinality(EmptyCells(g)) <= MaxDeepEmpty THEN MaxRounds ELSE MaxIterations

ProposeMove(move) == [call |-> "propose_move", move |-> move]
MinimaxCall(depth) == [call |-> "minimax", move |-> None, depth |-> depth]

InitEngine ==
    /\ \E g \in InitialStates(Rows2, Cols2, MaxEmpty, MaxTaboo) :
          /\ store = <<g>>
          /\ root = Node(g)
    /\ agent \in Agents
    /\ seed \in 0..(MaxSeed - 1)
    /\ agent = "A1" => seed = 0
    /\ pc = "start"
    /\ iter = 1
    /\ log = <<>>
    /\ op = "init"
    /\ arg = NoArg
    /\ out = 0
    /\ plies = 0

\* A3 line 106: root.extend_node(), with any outcome of its random draws
A3_ExtendRoot ==
    /\ agent = "A3"
    /\ pc = "start"
    /\ \E r \in get_valuable_moves(root.game_state) :
          IF r.raised
          THEN pc' = "raised" /\ root' = root
          ELSE /\ root' = [root EXCEPT
                             !.children = extend_node(root.game_state, r).children,
                             !.playing_taboo = extend_node(root.game_state, r).playing_taboo]
               /\ pc' = "extended"
    /\ UNCHANGED <<agent, iter, log, seed, helperVars>>

\* a first proposal that takes the first move of the child's history
FirstProposal_oldest(children, k) == children[k].game_state.moves[1]

\* the move random.choice(root.children).game_state.moves[-1] for the choice k
FirstProposal(children, k) == LastMove(children[k].game_state)

\* A3 lines 107-111: random.choice raises IndexError on an empty list
A3_ProposeFirst ==
    /\ agent = "A3"
    /\ pc = "extended"
    /\ IF root.children = <<>>
       THEN pc' = "raised" /\ log' = log
       ELSE /\ \E k \in 1..Len(root.children) :
                  log' = Append(log, ProposeMove(FirstProposal(root.children, k)))
            /\ pc' = IF root.playing_taboo THEN "returned" ELSE "search"
    /\ UNCHANGED <<agent, root, iter, seed, helperVars>>

\* the call of minimax of this turn of the loop: its depth, its side, and the
\* game states extend_node has run on earlier in this compute_best_move (at
\* line 106 on the root, then in the calls of minimax so far)
RoundOf(node) ==
    [depth |-> iter, maximizing_player |-> Len(node.game_state.moves) % 2 = 0,
     earlier |-> IF agent # "A3" THEN <<>>
                 ELSE IF op = "minimax" THEN arg.earlier \o out.expanded
                 ELSE <<node.game_state>>]

\* lines 122-131 (A1 lines 181-186), res being what minimax returned
AfterMinimax(res, limit) ==
    /\ op' = "minimax"
    /\ out' = res
    /\ IF res.raised
       THEN pc' = "raised" /\ log' = Append(log, MinimaxCall(iter)) /\ iter' = iter
       ELSE IF res.move = None
            THEN pc' = "returned" /\ log' = Append(log, MinimaxCall(iter)) /\ iter' = iter
            ELSE /\ log' = log \o <<MinimaxCall(iter), ProposeMove(res.move)>>
                 /\ iter' = iter + 1
                 /\ pc' = IF iter + 1 < limit THEN "search" ELSE "returned"

\* A3 lines 113-131: one turn of the while loop
A3_SearchDepth ==
    /\ agent = "A3"
    /\ pc = "search"
    /\ iter < max_depth
    /\ iter <= FollowedTo(root.game_state)
    /\ IF board_filled_in(root.game_state)
       THEN pc' = "returned" /\ UNCHANGED <<op, arg, out, log, iter, root>>
       ELSE \E res \in {minimax(root, iter, Len(root.game_state.moves) % 2 = 0,
                                Tenths * Alpha0, Tenths * Beta0, seed)} :
               /\ AfterMinimax(res, max_depth)
               /\ root' = IF res.raised THEN root ELSE res.node
               /\ arg' = RoundOf(root)
    /\ UNCHANGED <<agent, seed, store, plies>>

\* A1 line 170: a random legal move is proposed; random.choice raises
\* IndexError when there is none
A1_ProposeFirst ==
    /\ agent = "A1"
    /\ pc = "start"
    /\ IF A1_compute_all_legal_moves(root.game_state) = <<>>
       THEN pc' = "raised" /\ log' = log
       ELSE /\ \E k \in 1..Len(A1_compute_all_legal_moves(root.game_state)) :
                  log' = Append(log,
                                ProposeMove(A1_compute_all_legal_moves(root.game_state)[k]))
            /\ pc' = "search"
    /\ UNCHANGED <<agent, root, iter, seed, helperVars>>

\* A1 lines 172-186: one turn of the while loop
A1_SearchDepth ==
    /\ agent = "A1"
    /\ pc = "search"
    /\ iter <= FollowedTo(root.game_state)
    /\ IF board_filled_in(root.game_state)
       THEN pc' = "returned" /\ UNCHANGED <<op, arg, out, log, iter>>
       ELSE /\ AfterMinimax(A1_minimax(root.game_state, iter,
                                       Len(root.game_state.moves) % 2 = 0, Alpha0, Beta0),
                            MaxRounds + 2)
            /\ arg' = RoundOf(root)
    /\ UNCHANGED <<agent, root, seed, store, plies>>

NextEngine ==
    \/ A3_ExtendRoot
    \/ A3_ProposeFirst
    \/ A3_SearchDepth
    \/ A1_ProposeFirst
    \/ A1_SearchDepth

SpecEngine == InitEngine /\ [][NextEngine]_vars

\* the children plain minimax walks at a node: those the agent's search has
\* there, in the same order
PlainChildren(a, node, rnd) ==
    IF a = "A1"
    THEN [k \in 1..Len(A1_compute_all_legal_moves(node.game_state)) |->
            Node(SimulatedState(node.game_state,
                                A1_compute_all_legal_moves(node.game_state)[k], FALSE))]
    ELSE ChildrenNow(node, rnd).children

PlainLeaf(a, g) == IF a = "A1" THEN A1_evaluate(g) ELSE evaluate(g)

PlainStart(a, maximizing_player) ==
    IF a = "A1" THEN (IF maximizing_player THEN MaxStart ELSE MinStart)
    ELSE (IF maximizing_player THEN Tenths * MaxStart ELSE Tenths * MinStart)

RECURSIVE PlainValue(_, _, _, _, _)
RECURSIVE PlainFold(_, _, _, _, _, _, _)
\* minimax without any cutoff: the best of the values of all the children
PlainFold(a, children, k, depth, maximizing_player, value, rnd) ==
    IF k > Len(children) THEN value
    ELSE PlainFold(a, children, k + 1, depth, maximizing_player,
            IF maximizing_player
            THEN Max2(value, PlainValue(a, children[k], depth - 1, FALSE, rnd))
            ELSE Min2(value, PlainValue(a, children[k], depth - 1, TRUE, rnd)),
            rnd)

PlainValue(a, node, depth, maximizing_player, rnd) ==
    IF depth = 0 \/ board_filled_in(node.game_state) THEN PlainLeaf(a, node.game_state)
    ELSE PlainFold(a, PlainChildren(a, node, rnd), 1, depth, maximizing_player,
                   PlainStart(a, maximizing_player), rnd)

\* C5: on a 4x4 board with a few empty cells, minimax with alpha-beta cutoffs
\* called on a node with the window (-100000, 100000) at a depth d >= 1
\* returns the value of plain minimax over the same children to the same
\* depth, and the move it returns leads to a child whose plain minimax value
\* is that value (a search all of whose children are worth the starting
\* value returns no move, with or without cutoffs)
C5_AlphaBetaIsMinimax ==
    op = "minimax" =>
        /\ ~out.raised
        /\ arg.depth >= 1
        /\ out.value = PlainValue(agent, root, arg.depth, arg.maximizing_player, seed)
        /\ out.move # None =>
              \E k \in 1..Len(PlainChildren(agent, root, seed)) :
                  /\ LastMove(PlainChildren(agent, root, seed)[k].game_state) = out.move
                  /\ PlainValue(agent, PlainChildren(agent, root, seed)[k],
                                arg.depth - 1, ~arg.maximizing_player, seed) = out.value

\* a search of depth 3 over three children has returned a move
C5_Witness ==
    /\ op = "minimax"
    /\ arg.depth = 3
    /\ Len(PlainChildren(agent, root, seed)) = 3
    /\ out.move # None

\* C9: compute_best_move on a full board creates no child, proposes no move
\* and returns without raising an error
C9_TerminalReturns ==
    (board_filled_in(root.game_state) /\ agent = "A3" /\ pc # "start") =>
        /\ root.children = <<>>
        /\ log = <<>>
        /\ pc # "raised"

\* the moves of the root's children: for A3 the last moves of the children
\* of the root node, for A1 (which keeps no tree) the legal moves
RootMoves ==
    IF agent = "A3"
    THEN {LastMove(root.children[k].game_state) : k \in 1..Len(root.children)}
    ELSE Range(A1_compute_all_legal_moves(root.game_state))

\* the moves get_valuable_moves can return for the root, and the taboo moves
\* it can return first
RootValuable ==
    UNION {Range(r.moves) \cup (IF r.taboo = <<>> THEN {} ELSE {r.taboo[1]}) :
           r \in get_valuable_moves(root.game_state)}

\* C10: whenever compute_best_move, called on a state with a move to play,
\* has got to its search loop, its first call was a propose_move (so it came
\* before every minimax call), and the move proposed there is the last move
\* of a child of the root: a move get_valuable_moves returned, or the taboo
\* move played when the turn is skipped
C10_FallbackFirst ==
    /\ (pc \in {"search", "returned"} \/ log # <<>>) =>
          /\ log # <<>>
          /\ log[1].call = "propose_move"
          /\ log[1].move \in RootMoves
          /\ agent = "A3" => log[1].move \in RootValuable
          /\ (agent = "A3" /\ root.playing_taboo) => log[1].move.kind = "TabooMove"
    /\ (agent = "A3" /\ pc = "raised" /\ ~board_filled_in(root.game_state)) =>
          root.children = <<>>

\* A3 has proposed a first move and has then called minimax
C10_Witness ==
    /\ agent = "A3"
    /\ Len(log) >= 2
    /\ log[1].call = "propose_move"
    /\ log[2].call = "minimax"
    /\ Len(root.children) >= 2

\* C15: in one compute_best_move of the minimax agent the body of extend_node
\* runs at most once for a node of the tree, over all the rounds of the
\* iterative deepening: a call of minimax extends no node that was extended
\* before, nodes that were left without a child included
C15_ExpandedOnce ==
    (agent = "A3" /\ op = "minimax" /\ ~out.raised) =>
        \A i \in 1..Len(out.expanded) :
            /\ out.expanded[i] \notin Range(arg.earlier)
            /\ \A j \in 1..(i - 1) : out.expanded[j] # out.expanded[i]

\* C19: the rounds of the iterative deepening have the depths 1, 2, 3, ... in
\* this order, a move a round returns is proposed before the next round, and
\* the loop stops only on a full root board or after a round that returned
\* no move, never because a depth limit was reached
C19_UnboundedDeepening ==
    agent \in {"A1", "A3"} =>
        /\ \A i \in 2..Len(log) :
              IF i % 2 = 0 THEN log[i] = MinimaxCall(i \div 2)
              ELSE log[i].call = "propose_move"
        /\ (op = "minimax" /\ ~out.raised /\ out.move # None) =>
              log[Len(log)] = ProposeMove(out.move)
        /\ (pc = "returned" /\ ~(agent = "A3" /\ root.playing_taboo)) =>
              \/ board_filled_in(root.game_state)
              \/ op = "minimax" /\ out.move = None

\* the rows, columns and blocks of the board that have exactly k empty cells
RegionsWith(g, k) ==
    Cardinality({i \in 0..(BoardN(g) - 1) :
        Cardinality({j \in 0..(BoardN(g) - 1) : g.board[<<i, j>>] = 0}) = k})
    + Cardinality({j \in 0..(BoardN(g) - 1) :
        Cardinality({i \in 0..(BoardN(g) - 1) : g.board[<<i, j>>] = 0}) = k})
    + Cardinality({b \in (0..(g.n - 1)) \X (0..(g.m - 1)) :
        Cardinality({c \in Cells(BoardN(g)) :
            /\ c[1] \div g.m = b[1] /\ c[2] \div g.n = b[2]
            /\ g.board[c] = 0}) = k})

ScoreDifference(g) == g.scores[1] - g.scores[2]

-----------------------------------------------------------------------------
(* team27_A3_monte_carlo/helpers/heuristics.py and
   team27_A3_monte_carlo/sudokuai.py: the Monte Carlo tree search agent *)

\* heuristics.py line 114 and line 154: the thresholds of the two heuristics
MC_RemoveThreshold == 3
MC_OneMoveThreshold == 2

\* heuristics.py lines 92-106: the cell lets the opponent finish a region
MC_OpponentCanFinish(g, cell, allowed_in_rows, allowed_in_columns, allowed_in_blocks) ==
    /\ \/ Cardinality(allowed_in_rows[cell[1]]) = 2
       \/ Cardinality(allowed_in_columns[cell[2]]) = 2
       \/ Cardinality(allowed_in_blocks[BlockOfCell(g, cell)]) = 2
    /\ ~CellCanScore(g, cell, allowed_in_rows, allowed_in_columns, allowed_in_blocks)

\* heuristics.py lines 97-108: the cell is in two regions that are far from full
MC_VeryEmpty(g, cell, allowed_in_rows, allowed_in_columns, allowed_in_blocks) ==
    /\ ~MC_OpponentCanFinish(g, cell, allowed_in_rows, allowed_in_columns, allowed_in_blocks)
    /\ (IF Cardinality(allowed_in_rows[cell[1]]) > 3 THEN 1 ELSE 0)
       + (IF Cardinality(allowed_in_columns[cell[2]]) > 3 THEN 1 ELSE 0)
       + (IF Cardinality(allowed_in_blocks[BlockOfCell(g, cell)]) > 3 THEN 1 ELSE 0) >= 2
    /\ ~CellCanScore(g, cell, allowed_in_rows, allowed_in_columns, allowed_in_blocks)

\* heuristics.py lines 114-136: the dicts one stage of the removal can leave;
\* all of to_remove goes when enough cells stay, else a random sample of it
MC_RemoveStage(moves_under_consideration, to_remove) ==
    LET size == Cardinality(DOMAIN moves_under_consideration)
    IN IF size - Cardinality(to_remove) > MC_RemoveThreshold
       THEN {PopAll(moves_under_consideration, to_remove)}
       ELSE {PopAll(moves_under_consideration, subset) :
                subset \in {s \in SUBSET to_remove :
                              Cardinality(s) = Max2(size - MC_RemoveThreshold, 0)}}

\* heuristics.py lines 54-138: the results [moves, can_score] the function
\* can return
MC_remove_moves_that_allows_opponent_to_score(g, moves_under_consideration, allowed_in_rows, allowed_in_columns, allowed_in_blocks) ==
    LET to_remove_opponent_can_finish ==
            {cell \in DOMAIN moves_under_consideration :
                MC_OpponentCanFinish(g, cell, allowed_in_rows, allowed_in_columns,
                                     allowed_in_blocks)}
        to_remove_very_empty ==
            {cell \in DOMAIN moves_under_consideration :
                MC_VeryEmpty(g, cell, allowed_in_rows, allowed_in_columns,
                             allowed_in_blocks)}
        can_score_overall ==
            \E cell \in DOMAIN moves_under_consideration :
                CellCanScore(g, cell, allowed_in_rows, allowed_in_columns, allowed_in_blocks)
    IN {[moves |-> second, can_score |-> can_score_overall] :
            second \in UNION {MC_RemoveStage(first, to_remove_very_empty) :
                first \in MC_RemoveStage(moves_under_consideration,
                                         to_remove_opponent_can_finish)}}

\* heuristics.py lines 141-166: the dicts one_move_per_square can leave
MC_one_move_per_square(moves_under_consideration) ==
    LET to_remove == SeveralOptions(moves_under_consideration)
        size == Cardinality(DOMAIN moves_under_consideration)
    IN IF size - Cardinality(to_remove) > MC_OneMoveThreshold
       THEN {PopAll(moves_under_consideration, to_remove)}
       ELSE {PopAll(moves_under_consideration, subset) :
                subset \in {s \in SUBSET to_remove :
                              Cardinality(s) = Max2(size - MC_OneMoveThreshold, 0)}}

\* sudokuai.py lines 410-427: the two lists, each in any order of the shuffle
MC_ValuableResults(rm, taboo, N) ==
    {[moves |-> moves_list, taboo |-> taboo_list,
      can_score |-> rm.can_score, raised |-> FALSE] :
        moves_list \in UNION {MovesLists(lm, N) : lm \in MC_one_move_per_square(rm.moves)},
        taboo_list \in Shuffles(TabooMovesOf(taboo))}

\* sudokuai.py lines 405-427, from the state st the passes have left; the
\* cells whose list the passes emptied stay in the dict
MC_ValuableAfterPasses(g, cm, st) ==
    IF st.raised THEN {Raised}
    ELSE UNION {MC_ValuableResults(rm, st.taboo, BoardN(g)) :
            rm \in MC_remove_moves_that_allows_opponent_to_score(g,
                      force_highest_points_moves(g, st.lm, cm.rows, cm.columns, cm.blocks),
                      cm.rows, cm.columns, cm.blocks)}

MC_ValuableFrom(g, cm) == MC_ValuableAfterPasses(g, cm, TabooPasses(g, cm))

\* sudokuai.py lines 366-427: the results get_valuable_moves can return
MC_get_valuable_moves(g) == MC_ValuableFrom(g, compute_all_legal_moves(g))

\* line 54: float('inf'); the UCT values are counted in millionths
Infinity == 1000000000
Millionths == 1000000
\* line 35: frequent_visit_c
frequent_visit_C == 2

\* lines 76-77: frequent_visit_C * sqrt(ln(parent_number_visits) / number_visits)
\* in millionths, at row parent_number_visits and column number_visits
PenaltyTable ==
    <<
      <<0, 0, 0, 0, 0, 0, 0, 0>>,
      <<1665109, 1177410, 961351, 832555, 744659, 679778, 629352, 588705>>,
      <<2096294, 1482304, 1210296, 1048147, 937491, 855809, 792325, 741152>>,
      <<2354820, 1665109, 1359556, 1177410, 1053108, 961351, 890038, 832555>>,
      <<2537272, 1794123, 1464895, 1268636, 1134703, 1035837, 958999, 897061>>,
      <<2677132, 1893018, 1545643, 1338566, 1197250, 1092935, 1011861, 946509>>,
      <<2789918, 1972770, 1610760, 1394959, 1247689, 1138979, 1054490, 986385>>,
      <<2884054, 2039334, 1665109, 1442027, 1289788, 1177410, 1090070, 1019667>>
    >>

frequent_visit_penalty(parent_number_visits, number_visits) ==
    PenaltyTable[parent_number_visits][number_visits]

\* lines 35-55: a new node
MC_Node(game_state) ==
    [game_state |-> game_state, children |-> <<>>, playing_taboo |-> FALSE,
     score_obtained |-> 0, number_visits |-> 0,
     uct |-> Infinity, uct_needs_update |-> TRUE]

\* an unvisited node is given the value 0 to avoid the division
calculate_uct_zero(node, parent_number_visits) ==
    IF node.number_visits = 0
    THEN [node EXCEPT !.uct = 0, !.uct_needs_update = FALSE]
    ELSE [node EXCEPT
            !.uct = ((node.score_obtained * Millionths) \div node.number_visits)
                    + frequent_visit_penalty(parent_number_visits, node.number_visits),
            !.uct_needs_update = FALSE]

\* lines 57-80
calculate_uct(node, parent_number_visits) ==
    IF node.number_visits = 0
    THEN [node EXCEPT !.uct = Infinity, !.uct_needs_update = FALSE]
    ELSE [node EXCEPT
            !.uct = ((node.score_obtained * Millionths) \div node.number_visits)
                    + frequent_visit_penalty(parent_number_visits, node.number_visits),
            !.uct_needs_update = FALSE]

\* lines 109-121
MC_want_to_play_taboo(g) ==
    even_number_of_squares_left(g) /\ board_half_filled_in(g)

\* lines 93-107: the node extended with one result r of get_valuable_moves
MC_extend_node(node, r) ==
    IF /\ 0 < Len(r.taboo) /\ Len(r.taboo) < TabooCutoff
       /\ MC_want_to_play_taboo(node.game_state)
    THEN [node EXCEPT
            !.playing_taboo = TRUE,
            !.children = <<MC_Node(SimulatedState(node.game_state, r.taboo[1], TRUE))>>]
    ELSE [node EXCEPT
            !.children = [k \in 1..Len(r.moves) |->
                            MC_Node(SimulatedState(node.game_state, r.moves[k], FALSE))]]

\* lines 140-150: who won a game that was played to the end
PlayOutWinner(g) ==
    IF g.scores[1] - g.scores[2] > 0 THEN 1
    ELSE IF g.scores[1] - g.scores[2] < 0 THEN 2 ELSE 0

RECURSIVE simulate_play_out(_)
\* lines 123-159: the results [successful_simulation, winning_player] the
\* random play-out from game state g can end with
simulate_play_out(g) ==
    IF board_filled_in(g)
    THEN {[successful_simulation |-> TRUE, winning_player |-> PlayOutWinner(g),
           raised |-> FALSE]}
    ELSE UNION {IF r.raised
                THEN {[successful_simulation |-> FALSE, winning_player |-> 0,
                       raised |-> TRUE]}
                ELSE IF r.moves = <<>>
                THEN {[successful_simulation |-> FALSE, winning_player |-> 0,
                       raised |-> FALSE]}
                ELSE UNION {simulate_play_out(SimulatedState(g, move, FALSE)) :
                              move \in Range(r.moves)} :
                r \in MC_get_valuable_moves(g)}

RECURSIVE treewalk_uct_checkup(_)
\* lines 161-176: the node after the walk has refreshed the marked children
treewalk_uct_checkup(node) ==
    [node EXCEPT !.children =
        [k \in 1..Len(node.children) |->
            IF node.children[k].uct_needs_update
            THEN treewalk_uct_checkup(calculate_uct(node.children[k], node.number_visits))
            ELSE node.children[k]]]

RECURSIVE SelectFrom(_, _, _, _)
\* lines 268-283: the index of the child the loop selects from child k on
\* (0: none)
SelectFrom(children, k, highest_uct, optimal_child) ==
    IF k > Len(children) THEN optimal_child
    ELSE IF children[k].uct = Infinity THEN k
    ELSE IF children[k].uct > highest_uct
    THEN SelectFrom(children, k + 1, children[k].uct, k)
    ELSE SelectFrom(children, k + 1, highest_uct, optimal_child)

\* lines 259-283
optimal_child(node) == SelectFrom(node.children, 1, -Infinity, 0)

\* what the selection saw at a node and the child it chose
SelectionStep(node) ==
    [number_visits |-> [k \in 1..Len(node.children) |-> node.children[k].number_visits],
     uct |-> [k \in 1..Len(node.children) |-> node.children[k].uct],
     chosen |-> optimal_child(node)]

\* a score that is changed whichever player has won
ScoreAfter_either(node, winning_player, root_is_player_1) ==
    LET node_is_player_1 == Len(node.game_state.moves) % 2 = 0
        node_is_winner == \/ winning_player = 1 /\ node_is_player_1
                          \/ winning_player = 2 /\ ~node_is_player_1
    IN IF winning_player \in {1, 2}
       THEN (IF node_is_winner THEN node.score_obtained - 1 ELSE node.score_obtained + 1)
       ELSE node.score_obtained

\* lines 342-356: the score of the node after a play-out that was finished
ScoreAfter(node, winning_player, root_is_player_1) ==
    LET node_is_player_1 == Len(node.game_state.moves) % 2 = 0
        node_is_winner == \/ winning_player = 1 /\ node_is_player_1
                          \/ winning_player = 2 /\ ~node_is_player_1
    IN IF \/ winning_player = 1 /\ root_is_player_1
          \/ winning_player = 2 /\ ~root_is_player_1
       THEN (IF node_is_winner THEN node.score_obtained - 1 ELSE node.score_obtained + 1)
       ELSE node.score_obtained

\* a backpropagation that also credits a play-out that was not finished
Backpropagated_credit(node, successful_simulation, winning_player, root_is_player_1) ==
    [node EXCEPT
        !.number_visits = node.number_visits + 1,
        !.score_obtained = IF successful_simulation
                           THEN ScoreAfter(node, winning_player, root_is_player_1)
                           ELSE node.score_obtained + 1,
        !.uct_needs_update = TRUE,
        !.children = [k \in 1..Len(node.children) |->
                        [node.children[k] EXCEPT !.uct_needs_update = TRUE]]]

\* a backpropagation that counts the visit only when the play-out was finished
Backpropagated_finished(node, successful_simulation, winning_player, root_is_player_1) ==
    [node EXCEPT
        !.number_visits = IF successful_simulation
                          THEN node.number_visits + 1 ELSE node.number_visits,
        !.score_obtained = IF successful_simulation
                           THEN ScoreAfter(node, winning_player, root_is_player_1)
                           ELSE node.score_obtained,
        !.uct_needs_update = TRUE,
        !.children = [k \in 1..Len(node.children) |->
                        [node.children[k] EXCEPT !.uct_needs_update = TRUE]]]

\* lines 325-362: the node after backpropagation
Backpropagated(node, successful_simulation, winning_player, root_is_player_1) ==
    [node EXCEPT
        !.number_visits = node.number_visits + 1,
        !.score_obtained = IF successful_simulation
                           THEN ScoreAfter(node, winning_player, root_is_player_1)
                           ELSE node.score_obtained,
        !.uct_needs_update = TRUE,
        !.children = [k \in 1..Len(node.children) |->
                        [node.children[k] EXCEPT !.uct_needs_update = TRUE]]]

\* what a call of monte_carlo leaves: the node, what it returns, whether it
\* raised an exception, the selection steps made in it and below it, and the
\* path of the recursion (the index of the child each call went into)
MonteCarloResult(node, successful_simulation, winning_player, steps) ==
    [node |-> node, successful_simulation |-> successful_simulation,
     winning_player |-> winning_player, raised |-> FALSE, steps |-> steps,
     path |-> <<>>]

MonteCarloRaised(node, steps) ==
    [node |-> node, successful_simulation |-> FALSE,
     winning_player |-> 0, raised |-> TRUE, steps |-> steps, path |-> <<>>]

\* lines 322-364, from the result below of the recursive call on child k
AfterDescent(node, k, below, root_is_player_1, steps) ==
    IF below.raised
    THEN [MonteCarloRaised([node EXCEPT !.children[k] = below.node],
                           steps \o below.steps)
            EXCEPT !.path = <<k>> \o below.path]
    ELSE [MonteCarloResult(
            Backpropagated([node EXCEPT !.children[k] = below.node],
                           below.successful_simulation, below.winning_player,
                           root_is_player_1),
            below.successful_simulation, below.winning_player, steps \o below.steps)
            EXCEPT !.path = <<k>> \o below.path]

\* lines 314-316: the node extended, the values of its new children computed
ExtendedLeaf(node, r) ==
    [MC_extend_node(node, r) EXCEPT !.children =
        [k \in 1..Len(MC_extend_node(node, r).children) |->
            calculate_uct(MC_extend_node(node, r).children[k], node.number_visits)]]

RECURSIVE monte_carlo(_, _)
\* lines 314-320: a leaf visited before is extended with the result r and the
\* search goes on in a random child; random.choice raises IndexError when
\* there is none
ExpandLeaf(node, r, root_is_player_1) ==
    IF r.raised \/ ExtendedLeaf(node, r).children = <<>>
    THEN {MonteCarloRaised(node, <<>>)}
    ELSE UNION {{AfterDescent(ExtendedLeaf(node, r), k, below, root_is_player_1, <<>>) :
                    below \in monte_carlo(ExtendedLeaf(node, r).children[k],
                                          root_is_player_1)} :
                k \in 1..Len(ExtendedLeaf(node, r).children)}

\* lines 293-320: the node has no child to select
AtLeaf(node, root_is_player_1) ==
    IF board_filled_in(node.game_state)
    THEN {MonteCarloResult(
             Backpropagated(node, TRUE,
                            node.game_state.scores[1] - node.game_state.scores[2],
                            root_is_player_1),
             TRUE, node.game_state.scores[1] - node.game_state.scores[2], <<>>)}
    ELSE IF node.number_visits = 0
    THEN {IF po.raised THEN MonteCarloRaised(node, <<>>)
          ELSE MonteCarloResult(
                  Backpropagated(node, po.successful_simulation, po.winning_player,
                                 root_is_player_1),
                  po.successful_simulation, po.winning_player, <<>>) :
            po \in simulate_play_out(node.game_state)}
    ELSE UNION {ExpandLeaf(node, r, root_is_player_1) :
                  r \in MC_get_valuable_moves(node.game_state)}

\* lines 244-364: the results one call of monte_carlo on the node can have
monte_carlo(node, root_is_player_1) ==
    IF optimal_child(node) # 0
    THEN {AfterDescent(node, optimal_child(node), below, root_is_player_1,
                       <<SelectionStep(node)>>) :
            below \in monte_carlo(node.children[optimal_child(node)], root_is_player_1)}
    ELSE AtLeaf(node, root_is_player_1)

RECURSIVE BestVisited_any(_, _, _, _)
\* the move of the child with the highest UCT, visited or not
BestVisited_any(children, k, highest_uct, optimal_move) ==
    IF k > Len(children) THEN optimal_move
    ELSE IF children[k].uct > highest_uct
    THEN BestVisited_any(children, k + 1, children[k].uct, LastMove(children[k].game_state))
    ELSE BestVisited_any(children, k + 1, highest_uct, optimal_move)

RECURSIVE BestVisited(_, _, _, _)
\* lines 229-237: the move of the visited child with the highest UCT
BestVisited(children, k, highest_uct, optimal_move) ==
    IF k > Len(children) THEN optimal_move
    ELSE IF children[k].uct # Infinity /\ children[k].uct > highest_uct
    THEN BestVisited(children, k + 1, children[k].uct, LastMove(children[k].game_state))
    ELSE BestVisited(children, k + 1, highest_uct, optimal_move)

MonteCarloCall(n) == [call |-> "monte_carlo", move |-> None, depth |-> n]

\* lines 187-200: no tree of an earlier turn is loaded, the root is new
InitMCTS ==
    /\ \E g \in InitialStates(Rows2, Cols2, MaxEmpty, MaxTaboo) :
          /\ store = <<g>>
          /\ root = MC_Node(g)
    /\ agent = "MCTS"
    /\ seed = 0
    /\ pc = "start"
    /\ iter = 1
    /\ log = <<>>
    /\ op = "init"
    /\ arg = NoArg
    /\ out = <<>>
    /\ plies = 0

\* lines 202-204: root.extend_node(), with any outcome of its random draws
MC_ExtendRoot ==
    /\ agent = "MCTS"
    /\ pc = "start"
    /\ \E r \in MC_get_valuable_moves(root.game_state) :
          IF r.raised
          THEN pc' = "raised" /\ root' = root
          ELSE root' = MC_extend_node(root, r) /\ pc' = "extended"
    /\ UNCHANGED <<agent, iter, log, seed, helperVars>>

\* lines 206-214: a random child's move is proposed (random.choice raises
\* IndexError on an empty list); unless a taboo move is played the values of
\* the new leaves are computed
MC_ProposeFirst ==
    /\ agent = "MCTS"
    /\ pc = "extended"
    /\ IF root.children = <<>>
       THEN pc' = "raised" /\ log' = log /\ root' = root
       ELSE /\ \E k \in 1..Len(root.children) :
                  log' = Append(log, ProposeMove(LastMove(root.children[k].game_state)))
            /\ IF root.playing_taboo
               THEN pc' = "returned" /\ root' = root
               ELSE pc' = "search" /\ root' = treewalk_uct_checkup(root)
    /\ UNCHANGED <<agent, iter, seed, helperVars>>

\* lines 225-242, from one result res of the call of monte_carlo on the root
AfterMonteCarlo(res) ==
    /\ op' = "monte_carlo"
    /\ out' = res.steps
    /\ arg' = [before |-> root, successful_simulation |-> res.successful_simulation,
               winning_player |-> res.winning_player, path |-> res.path]
    /\ IF res.raised
       THEN /\ pc' = "raised"
            /\ root' = res.node
            /\ log' = Append(log, MonteCarloCall(iter))
            /\ iter' = iter
       ELSE /\ pc' = "search"
            /\ root' = treewalk_uct_checkup(res.node)
            /\ log' = IF BestVisited(treewalk_uct_checkup(res.node).children,
                                     1, -Infinity, None) = None
                      THEN Append(log, MonteCarloCall(iter))
                      ELSE log \o <<MonteCarloCall(iter),
                                    ProposeMove(BestVisited(
                                        treewalk_uct_checkup(res.node).children,
                                        1, -Infinity, None))>>
            /\ iter' = iter + 1

\* lines 222-242: one turn of the while loop
MC_Iterate ==
    /\ agent = "MCTS"
    /\ pc = "search"
    /\ iter <= MaxIterations
    /\ \E res \in monte_carlo(root, Len(root.game_state.moves) % 2 = 0) :
          AfterMonteCarlo(res)
    /\ UNCHANGED <<agent, seed, store, plies>>

NextMCTS ==
    \/ MC_ExtendRoot
    \/ MC_ProposeFirst
    \/ MC_Iterate

SpecMCTS == InitMCTS /\ [][NextMCTS]_vars

\* C6: in every selection step of an iteration of the tree search, at a node
\* that has a child that was never visited, the child chosen for the descent
\* was never visited: its number_visits is 0 and its UCT is infinite
C6_UnvisitedFirst ==
    op = "monte_carlo" =>
        \A s \in 1..Len(out) :
            /\ out[s].chosen \in 1..Len(out[s].number_visits)
            /\ \A k \in 1..Len(out[s].number_visits) :
                  out[s].number_visits[k] = 0 <=> out[s].uct[k] = Infinity
            /\ (\E k \in 1..Len(out[s].number_visits) : out[s].number_visits[k] = 0) =>
                  /\ out[s].number_visits[out[s].chosen] = 0
                  /\ out[s].uct[out[s].chosen] = Infinity

\* a selection step has passed over a visited child and taken an unvisited one
C6_Witness ==
    /\ op = "monte_carlo"
    /\ \E s \in 1..Len(out) :
          /\ out[s].chosen > 1
          /\ out[s].number_visits[1] > 0
          /\ out[s].number_visits[out[s].chosen] = 0

\* C13: after every completed iteration of the tree search in which a child of
\* the root has a finite UCT, propose_move is called with the move of a child
\* whose UCT is the highest among the finite ones; the loop never proposes a
\* child whose UCT is infinite
C13_ProposesBestVisited ==
    (agent = "MCTS" /\ op = "monte_carlo" /\ pc = "search") =>
        /\ Len(log) >= 2
        /\ IF \E k \in 1..Len(root.children) : root.children[k].uct # Infinity
           THEN /\ log[Len(log) - 1] = MonteCarloCall(iter - 1)
                /\ log[Len(log)].call = "propose_move"
                /\ \E k \in 1..Len(root.children) :
                      /\ log[Len(log)].move = LastMove(root.children[k].game_state)
                      /\ root.children[k].uct # Infinity
                      /\ \A j \in 1..Len(root.children) :
                            root.children[j].uct # Infinity =>
                                root.children[j].uct <= root.children[k].uct
                /\ \A k \in 1..Len(root.children) :
                      log[Len(log)].move = LastMove(root.children[k].game_state) =>
                          root.children[k].uct # Infinity
           ELSE log[Len(log)] = MonteCarloCall(iter - 1)

\* an iteration has proposed a later child over a visited first child of lower
\* UCT while another child was still unvisited
C13_Witness ==
    /\ agent = "MCTS" /\ op = "monte_carlo" /\ pc = "search"
    /\ \E k \in 2..Len(root.children) :
          /\ log[Len(log)] = ProposeMove(LastMove(root.children[k].game_state))
          /\ root.children[1].uct < root.children[k].uct
    /\ \E j \in 1..Len(root.children) : root.children[j].uct = Infinity

\* C14: a call of monte_carlo on a root that has a child returns normally to
\* compute_best_move, whether a dead end (a board that is not full and has no
\* valuable move) is met in the random play-out or when a leaf visited before
\* is extended
C14_DeadEndAbsorbed ==
    (agent = "MCTS" /\ op = "monte_carlo") => pc # "raised"

-----------------------------------------------------------------------------
(* The effect of one iteration on the tree: arg holds the root before the    *)
(* iteration, what monte_carlo returned and the path of its recursion        *)

RECURSIVE Positions(_)
\* the nodes of the tree below node, each as the child indices leading to it
Positions(node) ==
    {<<>>} \cup UNION {{<<k>> \o q : q \in Positions(node.children[k])} :
                         k \in 1..Len(node.children)}

RECURSIVE NodeAt(_, _)
NodeAt(node, position) ==
    IF position = <<>> THEN node
    ELSE NodeAt(node.children[position[1]], Tail(position))

IsPrefix(position, path) ==
    /\ Len(position) <= Len(path)
    /\ \A k \in 1..Len(position) : position[k] = path[k]

\* number_visits and score_obtained at a position before the iteration; a node
\* the iteration created starts with 0 and 0 (Node.__init__)
VisitsBefore(position) ==
    IF position \in Positions(arg.before)
    THEN NodeAt(arg.before, position).number_visits ELSE 0

ScoreBefore(position) ==
    IF position \in Positions(arg.before)
    THEN NodeAt(arg.before, position).score_obtained ELSE 0

IterationDone == agent = "MCTS" /\ op = "monte_carlo" /\ pc = "search"

\* the winner handed up names the player to move at the root
RootWins ==
    \/ arg.winning_player = 1 /\ Len(root.game_state.moves) % 2 = 0
    \/ arg.winning_player = 2 /\ Len(root.game_state.moves) % 2 = 1

\* the winner handed up is the player to move at the node
NodeWins(node) ==
    \/ arg.winning_player = 1 /\ Len(node.game_state.moves) % 2 = 0
    \/ arg.winning_player = 2 /\ Len(node.game_state.moves) % 2 = 1

\* C17 as stated: after an iteration that ended in an unsuccessful simulation
\* only the node the play-out started from has one more visit; the visits of
\* its ancestors up to the root and every score are unchanged
C17_OnlyOrigin ==
    (IterationDone /\ ~arg.successful_simulation) =>
        \A q \in Positions(root) :
            /\ NodeAt(root, q).number_visits =
                  VisitsBefore(q) + (IF q = arg.path THEN 1 ELSE 0)
            /\ NodeAt(root, q).score_obtained = ScoreBefore(q)

\* C17: after an iteration that ended in an unsuccessful simulation every node
\* on the path from the root to the node the play-out started from has exactly
\* one more visit, no other node has its visits changed, and every score in
\* the tree is unchanged
C17_VisitsAlongPath ==
    (IterationDone /\ ~arg.successful_simulation) =>
        /\ arg.path \in Positions(root)
        /\ Positions(arg.before) \subseteq Positions(root)
        /\ \A q \in Positions(root) :
              /\ NodeAt(root, q).number_visits =
                    VisitsBefore(q) + (IF IsPrefix(q, arg.path) THEN 1 ELSE 0)
              /\ NodeAt(root, q).score_obtained = ScoreBefore(q)

\* an unsuccessful play-out from a node that had been visited nowhere, below a
\* root that had been visited before
C17_Witness ==
    /\ IterationDone /\ ~arg.successful_simulation
    /\ arg.before.number_visits >= 1
    /\ Len(arg.path) >= 1
    /\ NodeAt(root, arg.path).number_visits = 1

\* C18 as stated: after an iteration that ended in a finished simulation won
\* by player 1 or player 2, every node on the path has one more visit and a
\* score changed by one, -1 where the player to move is the winner and +1
\* elsewhere, whichever player won; the other nodes are unchanged
C18_BothWinners ==
    (IterationDone /\ arg.successful_simulation /\ arg.winning_player \in {1, 2}) =>
        \A q \in Positions(root) :
            /\ NodeAt(root, q).number_visits =
                  VisitsBefore(q) + (IF IsPrefix(q, arg.path) THEN 1 ELSE 0)
            /\ NodeAt(root, q).score_obtained =
                  ScoreBefore(q) + (IF ~IsPrefix(q, arg.path) THEN 0
                                    ELSE IF NodeWins(NodeAt(root, q)) THEN -1 ELSE 1)

\* C18: after an iteration that ended in a finished simulation every node on
\* the path has one more visit; when the winner handed up is the player to
\* move at the root, the score on the path changes by -1 at the nodes where
\* that player is to move and by +1 at the others; when it is not, no score
\* changes; the nodes off the path are unchanged
C18_RootWinnerOnly ==
    (IterationDone /\ arg.successful_simulation) =>
        /\ arg.path \in Positions(root)
        /\ Positions(arg.before) \subseteq Positions(root)
        /\ \A q \in Positions(root) :
              /\ NodeAt(root, q).number_visits =
                    VisitsBefore(q) + (IF IsPrefix(q, arg.path) THEN 1 ELSE 0)
              /\ NodeAt(root, q).score_obtained =
                    ScoreBefore(q) + (IF ~IsPrefix(q, arg.path) \/ ~RootWins THEN 0
                                      ELSE IF NodeWins(NodeAt(root, q)) THEN -1 ELSE 1)

\* a finished simulation won by the player to move at the root, two levels
\* below the root: the scores on the path have moved both ways
C18_Witness ==
    /\ IterationDone /\ arg.successful_simulation /\ RootWins
    /\ Len(arg.path) >= 2
    /\ root.score_obtained = ScoreBefore(<<>>) - 1
    /\ NodeAt(root, <<arg.path[1]>>).score_obtained = ScoreBefore(<<arg.path[1]>>) + 1

-----------------------------------------------------------------------------
(* Node.extend_node called on a node, and called on it again                *)
(*   root is the node, plies the number of calls made, pc how the last call *)
(*   ended, arg the node before the last call and the result of             *)
(*   get_valuable_moves the call used.                                      *)

\* blocks of RowsW rows and ColsW columns: the smallest board with blocks that
\* are not square
RowsW == 2
ColsW == 3
\* at most this many cells of such a board are empty
MaxWideEmpty == 6
\* extend_node is called at most this many times on a node
MaxExtendCalls == 2

\* the cells such a board may have empty: two cells of each block of the
\* first stack
WideHoleCells == {<<0, 1>>, <<0, 2>>, <<2, 1>>, <<2, 2>>, <<4, 1>>, <<4, 2>>}

WideStates(cells, maxEmpty) ==
    {InitialState(RowsW, ColsW, holes, <<>>, {}) :
        holes \in SubsetsUpTo(cells, maxEmpty)}

NodeAgents == {"A3", "MCTS"}

NewNode(a, g) == IF a = "A3" THEN Node(g) ELSE MC_Node(g)

\* SudokuAI.get_valuable_moves of the agent
ValuableMovesOf(a, g) ==
    IF a = "A3" THEN get_valuable_moves(g) ELSE MC_get_valuable_moves(g)

\* the node after the body of extend_node has run with the result r
ExtendedNode(a, node, r) ==
    IF a = "A3"
    THEN [node EXCEPT !.children = extend_node(node.game_state, r).children,
                      !.playing_taboo = extend_node(node.game_state, r).playing_taboo]
    ELSE MC_extend_node(node, r)

InitNode ==
    /\ \E g \in InitialStates(Rows2, Cols2, MaxEmpty, MaxTaboo) \cup WideStates(WideHoleCells, MaxWideEmpty) :
          /\ store = <<g>>
          /\ \E a \in NodeAgents : agent = a /\ root = NewNode(a, g)
    /\ seed = 0
    /\ pc = "start"
    /\ iter = 1
    /\ log = <<>>
    /\ op = "init"
    /\ arg = NoArg
    /\ out = 0
    /\ plies = 0

\* A3 lines 45-69, MCTS lines 82-107: a call of extend_node on the node; it
\* raises when the node has a child, and when get_valuable_moves raises
CallExtendNode ==
    /\ pc \in {"start", "extended"}
    /\ plies < MaxExtendCalls
    /\ op' = "extend_node"
    /\ plies' = plies + 1
    /\ IF Len(root.children) > 0
       THEN /\ pc' = "raised"
            /\ root' = root
            /\ arg' = [before |-> root, r |-> Raised]
       ELSE \E r \in ValuableMovesOf(agent, root.game_state) :
               /\ arg' = [before |-> root, r |-> r]
               /\ IF r.raised
                  THEN pc' = "raised" /\ root' = root
                  ELSE pc' = "extended" /\ root' = ExtendedNode(agent, root, r)
    /\ UNCHANGED <<agent, iter, log, seed, store, out>>

SpecNode == InitNode /\ [][CallExtendNode]_vars

\* C11: a call of extend_node on a node that extend_node has run on before
\* raises an exception and leaves the node's children and its playing_taboo
\* flag as they were
C11_ReExpansionRaises ==
    (op = "extend_node" /\ plies = 2) =>
        /\ pc = "raised"
        /\ root.children = arg.before.children
        /\ root.playing_taboo = arg.before.playing_taboo

\* the turn-skip condition of the specification, from the game state g of
\* the node and the result r of get_valuable_moves
SkipExpected(g, r) ==
    /\ ~r.can_score
    /\ Cardinality(EmptyCells(g)) % 2 = 0
    /\ 2 * Cardinality(EmptyCells(g)) <= BoardN(g) * BoardN(g)
    /\ 1 <= Len(r.taboo) /\ Len(r.taboo) < TabooCutoff

\* C12: extend_node sets playing_taboo and creates a single child, by the
\* taboo variant of simulate_move from an inferred taboo move, exactly when
\* can_score is false, the number of empty cells is even, at least half of
\* the cells are filled and there are between 1 and 19 inferred taboo moves;
\* otherwise it creates one child per valuable move by the normal
\* simulate_move and leaves playing_taboo false
C12_TurnSkipCondition ==
    (op = "extend_node" /\ plies = 1 /\ pc = "extended") =>
        IF SkipExpected(arg.before.game_state, arg.r)
        THEN /\ root.playing_taboo
             /\ Len(root.children) = 1
             /\ \E t \in Range(arg.r.taboo) :
                   root.children[1].game_state =
                       SimulatedState(arg.before.game_state, t, TRUE)
        ELSE /\ ~root.playing_taboo
             /\ Len(root.children) = Len(arg.r.moves)
             /\ \A k \in 1..Len(arg.r.moves) :
                   root.children[k].game_state =
                       SimulatedState(arg.before.game_state, arg.r.moves[k], FALSE)

-----------------------------------------------------------------------------
(* compute_best_move of team27_A3 and of team27_A3_monte_carlo on boards    *)
(* where the turn-skip policy is engaged below the root                     *)

\* at most this many cells of the board are empty when the search starts
MaxSkipEmpty == 5

\* the cells the board may have empty: four cells whose inferred taboo move
\* engages the policy, and the last cell, which scores when it is filled
SkipHoleCells == {<<0, 1>>, <<0, 2>>, <<2, 1>>, <<2, 2>>, <<5, 5>>}

InitSkip ==
    /\ \E g \in WideStates(SkipHoleCells, MaxSkipEmpty) :
          /\ store = <<g>>
          /\ \E a \in NodeAgents : agent = a /\ root = NewNode(a, g)
    /\ seed \in 0..(MaxSeed - 1)
    /\ agent = "MCTS" => seed = 0
    /\ pc = "start"
    /\ iter = 1
    /\ log = <<>>
    /\ op = "init"
    /\ arg = NoArg
    /\ out = IF agent = "A3" THEN 0 ELSE <<>>
    /\ plies = 0

NextSkip ==
    \/ A3_ExtendRoot
    \/ A3_ProposeFirst
    \/ A3_SearchDepth
    \/ MC_ExtendRoot
    \/ MC_ProposeFirst
    \/ MC_Iterate

SpecSkip == InitSkip /\ [][NextSkip]_vars

\* C16: in the tree of either engine the single child of a node on which the
\* turn-skip policy was engaged (playing_taboo is true) has no children, at
\* the root and at every deeper node: the search does not expand it and
\* does not go beneath it
C16_TurnSkipTerminal ==
    \A position \in Positions(root) :
        NodeAt(root, position).playing_taboo =>
            NodeAt(root, position \o <<1>>).children = <<>>

-----------------------------------------------------------------------------
(* The heuristics that thin out the moves under consideration, each called  *)
(* on a dict of moves of the caller's game_state store[1]                   *)
(*   arg.moves_under_consideration is the dict given, out the result, pc    *)
(*   how the call ended.                                                    *)

\* at most this many cells of the board are empty
MaxFilterEmpty == 8

\* the cells the board may have empty: the first row, the rest of the first
\* column, one more cell of the first block, and the last cell
FilterHoleCells ==
    {<<0, 0>>, <<0, 1>>, <<0, 2>>, <<0, 3>>, <<1, 0>>, <<1, 1>>, <<2, 0>>, <<3, 0>>, <<3, 3>>}

FilterStates(maxEmpty) ==
    {InitialState(Rows2, Cols2, holes, <<>>, {}) :
        holes \in SubsetsUpTo(FilterHoleCells, maxEmpty)}

\* the dicts a caller may hand over: the legal moves of some of the empty cells
SubDicts(d) == {[c \in S |-> d[c]] : S \in SUBSET DOMAIN d}

InitFilter ==
    /\ \E g \in FilterStates(MaxFilterEmpty) :
          /\ store = <<g>>
          /\ \E d \in SubDicts(compute_all_legal_moves(g).legal_moves) :
                arg = [moves_under_consideration |-> d]
    /\ op = "init"
    /\ out = 0
    /\ plies = 0
    /\ EngineIdle

\* random.sample(population, k) raises ValueError when k exceeds the
\* population
SampleRaises(population, k) == k > Cardinality(population)

\* team27_A3 heuristics.py lines 75-118
CallRemoveMoves ==
    /\ op = "init"
    /\ op' = "remove_moves_that_allows_opponent_to_score"
    /\ LET g == store[1]
           cm == compute_all_legal_moves(g)
           d == arg.moves_under_consideration
           size == Cardinality(DOMAIN d)
           to_remove == {cell \in DOMAIN d :
                           CellToRemove(g, cell, cm.rows, cm.columns, cm.blocks)}
       IN IF /\ size - Cardinality(to_remove) <= RemoveThreshold
             /\ SampleRaises(to_remove, Max2(size - RemoveThreshold, 0))
          THEN pc' = "raised" /\ out' = 0
          ELSE /\ pc' = "returned"
               /\ out' = remove_moves_that_allows_opponent_to_score(g, d, cm.rows,
                                                                   cm.columns, cm.blocks)
    /\ UNCHANGED <<store, arg, plies, agent, root, iter, log, seed>>

\* team27_A3 heuristics.py lines 121-146, with any sample random.sample draws
CallOneMovePerSquare ==
    /\ op = "init"
    /\ op' = "one_move_per_square"
    /\ LET d == arg.moves_under_consideration
           size == Cardinality(DOMAIN d)
       IN IF /\ size - Cardinality(SeveralOptions(d)) <= RemoveThreshold
             /\ SampleRaises(SeveralOptions(d), Max2(size - RemoveThreshold, 0))
          THEN pc' = "raised" /\ out' = 0
          ELSE /\ pc' = "returned"
               /\ \E subset \in OneMoveSamples(d) :
                     out' = [moves |-> one_move_per_square(d, subset)]
    /\ UNCHANGED <<store, arg, plies, agent, root, iter, log, seed>>

\* team27_A3_monte_carlo heuristics.py lines 75-137; the samples are never
\* larger than the lists they are drawn from, or the set of results is empty
CallMCRemoveMoves ==
    /\ op = "init"
    /\ op' = "MC_remove_moves_that_allows_opponent_to_score"
    /\ LET g == store[1]
           cm == compute_all_legal_moves(g)
           results == MC_remove_moves_that_allows_opponent_to_score(
                          g, arg.moves_under_consideration, cm.rows, cm.columns, cm.blocks)
       IN IF results = {}
          THEN pc' = "raised" /\ out' = 0
          ELSE pc' = "returned" /\ \E r \in results : out' = r
    /\ UNCHANGED <<store, arg, plies, agent, root, iter, log, seed>>

\* team27_A3_monte_carlo heuristics.py lines 141-166
CallMCOneMovePerSquare ==
    /\ op = "init"
    /\ op' = "MC_one_move_per_square"
    /\ IF MC_one_move_per_square(arg.moves_under_consideration) = {}
       THEN pc' = "raised" /\ out' = 0
       ELSE /\ pc' = "returned"
            /\ \E lm \in MC_one_move_per_square(arg.moves_under_consideration) :
                  out' = [moves |-> lm]
    /\ UNCHANGED <<store, arg, plies, agent, root, iter, log, seed>>

NextFilter ==
    \/ CallRemoveMoves
    \/ CallOneMovePerSquare
    \/ CallMCRemoveMoves
    \/ CallMCOneMovePerSquare

SpecFilter == InitFilter /\ [][NextFilter]_vars

FilterOps ==
    {"remove_moves_that_allows_opponent_to_score", "one_move_per_square",
     "MC_remove_moves_that_allows_opponent_to_score", "MC_one_move_per_square"}

\* the floor of the heuristic that was called
FloorOf(name) ==
    IF name = "MC_remove_moves_that_allows_opponent_to_score" THEN MC_RemoveThreshold
    ELSE IF name = "MC_one_move_per_square" THEN MC_OneMoveThreshold
    ELSE RemoveThreshold

AdmissibleInRow(g, cell) == Cardinality(MissingIn(g, RowOf(cell, BoardN(g))))
AdmissibleInColumn(g, cell) == Cardinality(MissingIn(g, ColumnOf(cell, BoardN(g))))
AdmissibleInBlock(g, cell) == Cardinality(MissingIn(g, BlockOf(cell, BoardN(g), g.m, g.n)))

\* a move on the cell scores: one of its regions has one admissible digit left
ScoringCell(g, cell) ==
    \/ AdmissibleInRow(g, cell) = 1
    \/ AdmissibleInColumn(g, cell) = 1
    \/ AdmissibleInBlock(g, cell) = 1

\* a region of the cell has exactly 2 admissible digits
LeavesTwo(g, cell) ==
    \/ AdmissibleInRow(g, cell) = 2
    \/ AdmissibleInColumn(g, cell) = 2
    \/ AdmissibleInBlock(g, cell) = 2

\* at least 2 of the row, the column and the block of the cell have more than
\* 3 admissible digits
FarFromFull(g, cell) ==
    (IF AdmissibleInRow(g, cell) > 3 THEN 1 ELSE 0)
    + (IF AdmissibleInColumn(g, cell) > 3 THEN 1 ELSE 0)
    + (IF AdmissibleInBlock(g, cell) > 3 THEN 1 ELSE 0) >= 2

RemoveOps ==
    {"remove_moves_that_allows_opponent_to_score",
     "MC_remove_moves_that_allows_opponent_to_score"}

\* C22: remove_moves_that_allows_opponent_to_score keeps every cell whose
\* move scores (its row, column or block has exactly one admissible digit
\* left); a cell it removes does not score and lies in a region with exactly
\* 2 admissible digits or has at least 2 of its row, column and block with
\* more than 3; and can_score is true exactly when the dict given has a cell
\* that scores
C22_ScoringKept ==
    (op \in RemoveOps /\ pc = "returned") =>
        /\ \A cell \in DOMAIN arg.moves_under_consideration :
              ScoringCell(store[1], cell) => cell \in DOMAIN out.moves
        /\ \A cell \in DOMAIN arg.moves_under_consideration \ DOMAIN out.moves :
              /\ ~ScoringCell(store[1], cell)
              /\ LeavesTwo(store[1], cell) \/ FarFromFull(store[1], cell)
        /\ out.can_score <=>
              \E cell \in DOMAIN arg.moves_under_consideration : ScoringCell(store[1], cell)

\* a cell that scores in a region with exactly 2 admissible digits is kept
\* while another cell is removed
C22_Witness ==
    /\ op = "remove_moves_that_allows_opponent_to_score"
    /\ pc = "returned"
    /\ out.can_score
    /\ \E cell \in DOMAIN out.moves :
          ScoringCell(store[1], cell) /\ LeavesTwo(store[1], cell)
    /\ DOMAIN out.moves # DOMAIN arg.moves_under_consideration

-----------------------------------------------------------------------------
(* The taboo passes on boards whose blocks are not square                   *)

\* at most this many cells of such a board are empty
MaxWidePassEmpty == 4

\* blocks of RowsW rows and ColsW columns, and blocks of ColsW rows and RowsW
\* columns
WideShapes == {<<RowsW, ColsW>>, <<ColsW, RowsW>>}

\* the cells such a board may have empty: cells of the first block and of
\* the block below it, and a cell of the row and of the column of <<1, 1>>
WidePassCells ==
    {<<0, 0>>, <<0, 1>>, <<0, 2>>, <<1, 1>>, <<1, 3>>, <<2, 1>>, <<2, 2>>, <<5, 1>>}

InitWideTaboo ==
    /\ \E sh \in WideShapes, holes \in SubsetsUpTo(WidePassCells, MaxWidePassEmpty) :
          /\ store = <<InitialState(sh[1], sh[2], holes, <<>>, {})>>
          /\ out = [legal_moves |-> compute_all_legal_moves(store[1]).legal_moves,
                    rows |-> compute_all_legal_moves(store[1]).rows,
                    columns |-> compute_all_legal_moves(store[1]).columns,
                    blocks |-> compute_all_legal_moves(store[1]).blocks,
                    taboo_moves |-> {},
                    raised |-> FALSE]
          /\ arg = [before |-> compute_all_legal_moves(store[1]).legal_moves,
                    eliminated |-> {}]
    /\ op = "compute_all_legal_moves"
    /\ plies = 0
    /\ EngineIdle

SpecWideTaboo == InitWideTaboo /\ [][NextTaboo]_vars

RECURSIVE SinglesProcessed(_, _, _, _)
\* the (cell, value) pairs obvious_singles finds to be single when its loop
\* reaches the cell
SinglesProcessed(g, st, keys, k) ==
    IF k > Len(keys) THEN {}
    ELSE IF Len(st.lm[keys[k]]) = 1
         THEN {<<keys[k], st.lm[keys[k]][1]>>}
              \cup SinglesProcessed(g, Eliminate(st, StrikeSingle(g, st.lm, keys[k])),
                                    keys, k + 1)
         ELSE SinglesProcessed(g, st, keys, k + 1)

\* the singles of the call of obvious_singles that has just returned
SinglesOfCall ==
    SinglesProcessed(store[1], NoTaboo(arg.before), KeysInOrder(arg.before, BoardN(store[1])), 1)

\* two different cells that share a row, a column or a block
SharesRegion(c, d, m, n) ==
    c # d /\ (c[1] = d[1] \/ c[2] = d[2] \/ SameBlock(c, d, m, n))

\* C23: on every board shape, square blocks or not, obvious_singles removes
\* the value of each cell it finds single from every other cell of the
\* cell's row, column and block, and removes no candidate from a cell that
\* shares no row, column or block with such a cell
C23_ObviousSinglesRegions ==
    op = "obvious_singles" =>
        /\ \A single \in SinglesOfCall :
              \A d \in DOMAIN out.legal_moves :
                  SharesRegion(single[1], d, store[1].m, store[1].n) =>
                      single[2] \notin Range(out.legal_moves[d])
        /\ \A removed \in Candidates(arg.before) \ Candidates(out.legal_moves) :
              \E single \in SinglesOfCall :
                  /\ single[2] = removed[2]
                  /\ SharesRegion(single[1], removed[1], store[1].m, store[1].n)

-----------------------------------------------------------------------------
(* The taboo passes on standard boards with empty cells in the second and   *)
(* third stack, where the digit N is a candidate                            *)

\* at most this many cells of the board are empty
MaxBandEmpty == 3

\* the cells the board may have empty
BandHoleCells == {<<0, 5>>, <<0, 8>>, <<1, 5>>, <<2, 4>>, <<2, 5>>, <<5, 4>>}

InitBands ==
    /\ \E holes \in SubsetsUpTo(BandHoleCells, MaxBandEmpty) :
          /\ store = <<InitialState(Rows3, Cols3, holes, <<>>, {})>>
          /\ out = [legal_moves |-> compute_all_legal_moves(store[1]).legal_moves,
                    rows |-> compute_all_legal_moves(store[1]).rows,
                    columns |-> compute_all_legal_moves(store[1]).columns,
                    blocks |-> compute_all_legal_moves(store[1]).blocks,
                    taboo_moves |-> {},
                    raised |-> FALSE]
          /\ arg = [before |-> compute_all_legal_moves(store[1]).legal_moves,
                    eliminated |-> {}]
    /\ op = "compute_all_legal_moves"
    /\ plies = 0
    /\ EngineIdle

SpecBands == InitBands /\ [][NextTaboo]_vars

\* the top left cells of the blocks of the board
BlockCorners(g) ==
    {c \in Cells(BoardN(g)) : c[1] % g.m = 0 /\ c[2] % g.n = 0}

\* the cells of the block of corner that had the value as a candidate before
\* the pass
CandidateCells(g, corner, value) ==
    {c \in BlockOf(corner, BoardN(g), g.m, g.n) : HasCandidate(arg.before, c, value)}

\* after the pass the value is a candidate of no cell outside the block that
\* the line (k = 1: the row, k = 2: the column) of c runs through
StruckAlong(g, c, value, k) ==
    \A d \in DOMAIN out.legal_moves :
        (d[k] = c[k] /\ ~SameBlock(c, d, g.m, g.n)) => value \notin Range(out.legal_moves[d])

\* the block confines the value to one line, the pass has struck the value
\* from the line in the other blocks and has kept it in the block
ConfinedCovered(g, corner, value, k) ==
    (/\ CandidateCells(g, corner, value) # {}
     /\ \A c, d \in CandidateCells(g, corner, value) : c[k] = d[k]) =>
        \A c \in CandidateCells(g, corner, value) :
            /\ StruckAlong(g, c, value, k)
            /\ HasCandidate(out.legal_moves, c, value)

\* C24: the locked-candidates passes treat every band and every digit 1..N:
\* when the cells of a block that have v as a candidate all lie in one row
\* (locked_candidates_rows) or one column (locked_candidates_columns), the
\* pass leaves v a candidate nowhere else in that row (column), and removes
\* v from no cell of the block
C24_LockedCandidatesCover ==
    /\ (op = "locked_candidates_rows" /\ ~out.raised) =>
          \A corner \in BlockCorners(store[1]), value \in 1..BoardN(store[1]) :
              ConfinedCovered(store[1], corner, value, 1)
    /\ (op = "locked_candidates_columns" /\ ~out.raised) =>
          \A corner \in BlockCorners(store[1]), value \in 1..BoardN(store[1]) :
              ConfinedCovered(store[1], corner, value, 2)

-----------------------------------------------------------------------------
(* Claims about the list get_valuable_moves returns *)

\* the lists of valuable moves as random.shuffle can leave them, before the
\* sorting of lines 271-281
UnsortedMovesLists(g) ==
    LET cm == compute_all_legal_moves(g)
        st == TabooPasses(g, cm)
        rm == remove_moves_that_allows_opponent_to_score(g,
                  force_highest_points_moves(g,
                      PopAll(st.lm, {c \in DOMAIN st.lm : st.lm[c] = <<>>}),
                      cm.rows, cm.columns, cm.blocks),
                  cm.rows, cm.columns, cm.blocks)
    IN UNION {MovesLists(one_move_per_square(rm.moves, subset), BoardN(g)) :
                subset \in OneMoveSamples(rm.moves)}

\* the move scores: the row, the column or the block of its cell has exactly
\* one admissible digit
ScoringMove(g, move) == ScoringCell(g, <<move.i, move.j>>)

\* C25: when can_score is true the list of moves get_valuable_moves returns
\* has every move that scores before every move that does not, and is a
\* permutation of the unsorted list of valuable moves
C25_ScoringMovesFirst ==
    (op = "get_valuable_moves" /\ ~out.raised /\ out.can_score) =>
        /\ \A a, b \in 1..Len(out.moves) :
              (ScoringMove(arg.before[1], out.moves[a])
                 /\ ~ScoringMove(arg.before[1], out.moves[b])) => a < b
        /\ NoRepeats(out.moves)
        /\ \E moves_list \in UnsortedMovesLists(arg.before[1]) :
              Len(moves_list) = Len(out.moves) /\ Range(moves_list) = Range(out.moves)

-----------------------------------------------------------------------------
(* Claims about the scores and the visits the tree search accumulates       *)

\* C26: in every tree of the Monte Carlo search, after any number of
\* iterations, a node at even depth below the root (the root included) has
\* score_obtained <= 0 and a node at odd depth has score_obtained >= 0, also
\* below a node on which the turn-skip policy was engaged
C26_SignRuleByDepth ==
    agent = "MCTS" =>
        \A position \in Positions(root) :
            IF Len(position) % 2 = 0
            THEN NodeAt(root, position).score_obtained <= 0
            ELSE NodeAt(root, position).score_obtained >= 0

\* a play-out below the single child of a turn-skip node has been won by the
\* player to move at the root: the scores on the path are not 0, the taboo
\* child included
C26_Witness ==
    /\ agent = "MCTS"
    /\ \E position \in Positions(root) :
          /\ NodeAt(root, position).playing_taboo
          /\ NodeAt(root, position).score_obtained # 0
          /\ NodeAt(root, position \o <<1>>).score_obtained # 0
    /\ root.score_obtained < 0

-----------------------------------------------------------------------------
(* Node.simulate_play_out, one turn of its loop at a time                   *)
(*   store[1] is the game state of the node, out.current_state the object   *)
(*   the local variable current_state refers to, plies the number of moves  *)
(*   simulated so far, pc the position in the call, out.returned what the   *)
(*   call has returned.                                                     *)

InitPlayOut ==
    /\ \E g \in InitialStates(Rows2, Cols2, MaxEmpty, MaxTaboo) \cup WideStates(SkipHoleCells, MaxSkipEmpty) :
          /\ store = <<g>>
          /\ root = MC_Node(g)
    /\ agent = "MCTS"
    /\ seed = 0
    /\ iter = 0
    /\ log = <<>>
    /\ pc = "start"
    /\ op = "init"
    /\ arg = NoArg
    /\ out = [current_state |-> 0, returned |-> <<>>]
    /\ plies = 0

\* the objects still referred to: the node's game state and current_state
Referred(st, ref) == IF ref = 1 THEN <<st[1]>> ELSE <<st[1], st[ref]>>

\* line 132: current_state = deepcopy(self.game_state)
PlayOutCopy ==
    /\ op = "init"
    /\ pc = "start"
    /\ store' = Referred(deepcopy(store, 1).store, deepcopy(store, 1).ref)
    /\ out' = [out EXCEPT !.current_state = Len(Referred(deepcopy(store, 1).store,
                                                         deepcopy(store, 1).ref))]
    /\ op' = "simulate_play_out"
    /\ pc' = "loop"
    /\ arg' = [NoArg EXCEPT !.before = store]
    /\ UNCHANGED <<plies, agent, root, iter, log, seed>>

\* lines 138-150: the board is full, the winner is returned
PlayOutReturn ==
    /\ op = "simulate_play_out"
    /\ pc = "loop"
    /\ board_filled_in(store[out.current_state])
    /\ out' = [out EXCEPT !.returned = <<TRUE, PlayOutWinner(store[out.current_state])>>]
    /\ pc' = "returned"
    /\ UNCHANGED <<store, op, arg, plies, agent, root, iter, log, seed>>

\* lines 153-159: a random valuable move is simulated, or (False, 0) is
\* returned when there is none; an exception of get_valuable_moves is passed on
PlayOutMove ==
    /\ op = "simulate_play_out"
    /\ pc = "loop"
    /\ ~board_filled_in(store[out.current_state])
    /\ \E r \in MC_get_valuable_moves(store[out.current_state]) :
          IF r.raised
          THEN pc' = "raised" /\ UNCHANGED <<store, out, plies>>
          ELSE IF r.moves = <<>>
          THEN /\ pc' = "returned"
               /\ out' = [out EXCEPT !.returned = <<FALSE, 0>>]
               /\ UNCHANGED <<store, plies>>
          ELSE \E k \in 1..Len(r.moves) :
                  /\ store' = Referred(
                        simulate_move(store, out.current_state, r.moves[k], FALSE).store,
                        simulate_move(store, out.current_state, r.moves[k], FALSE).ref)
                  /\ out' = [out EXCEPT !.current_state = Len(store')]
                  /\ plies' = plies + 1
                  /\ pc' = "loop"
    /\ UNCHANGED <<op, arg, agent, root, iter, log, seed>>

NextPlayOut ==
    \/ PlayOutCopy
    \/ PlayOutReturn
    \/ PlayOutMove

SpecPlayOut == InitPlayOut /\ [][NextPlayOut]_vars

\* C27: a play-out from a node whose board has k empty cells simulates at
\* most k moves, each filling one empty cell; it returns (True, w) on a full
\* board, with w = 1 when player 1 has the higher score, 2 when player 2 has
\* it and 0 when the scores are equal, or (False, 0) on a board that is not
\* full and has no valuable move; the game state of the node is unchanged
C27_PlayOutTerminates ==
    op = "simulate_play_out" =>
        /\ store[1] = arg.before[1]
        /\ plies <= Cardinality(EmptyCells(arg.before[1]))
        /\ Cardinality(EmptyCells(store[out.current_state])) =
              Cardinality(EmptyCells(arg.before[1])) - plies
        /\ Len(store[out.current_state].moves) = Len(arg.before[1].moves) + plies
        /\ pc # "raised"
        /\ pc = "returned" =>
              /\ [successful_simulation |-> out.returned[1],
                  winning_player |-> out.returned[2],
                  raised |-> FALSE] \in simulate_play_out(arg.before[1])
              /\ IF board_filled_in(store[out.current_state])
                 THEN /\ out.returned[1] = TRUE
                      /\ out.returned[2] \in {0, 1, 2}
                      /\ out.returned[2] = 1 <=>
                            store[out.current_state].scores[1] > store[out.current_state].scores[2]
                      /\ out.returned[2] = 2 <=>
                            store[out.current_state].scores[2] > store[out.current_state].scores[1]
                      /\ out.returned[2] = 0 <=>
                            store[out.current_state].scores[1] = store[out.current_state].scores[2]
                 ELSE /\ out.returned = <<FALSE, 0>>
                      /\ \A r \in MC_get_valuable_moves(store[out.current_state]) :
                            r.moves = <<>>

\* a play-out of at least two moves has filled the board and player 2 has won
C27_Witness ==
    /\ op = "simulate_play_out"
    /\ pc = "returned"
    /\ plies >= 2
    /\ out.returned = <<TRUE, 2>>

-----------------------------------------------------------------------------
(* Claims about what an iteration of the tree search hands up               *)

\* the node the recursion of the last iteration ended in
IterationLeaf == NodeAt(root, arg.path)

\* C28: the winner an iteration hands up after a finished simulation is 0, 1
\* or 2: 1 when the final score of player 1 is the higher, 2 when that of
\* player 2 is, 0 when they are equal, both when the iteration ended in a
\* play-out and when the selection reached a leaf whose board is full
C28_WinnerEncodedAlike ==
    (IterationDone /\ arg.successful_simulation) =>
        /\ arg.winning_player \in {0, 1, 2}
        /\ IF board_filled_in(IterationLeaf.game_state)
           THEN arg.winning_player = PlayOutWinner(IterationLeaf.game_state)
           ELSE [successful_simulation |-> TRUE,
                 winning_player |-> arg.winning_player,
                 raised |-> FALSE] \in simulate_play_out(IterationLeaf.game_state)

RECURSIVE VisitsOf(_, _)
\* the sum of number_visits over the children from child k on
VisitsOf(children, k) ==
    IF k > Len(children) THEN 0
    ELSE children[k].number_visits + VisitsOf(children, k + 1)

Magnitude(x) == IF x < 0 THEN -x ELSE x

\* C29: after every completed iteration on a root that was newly created,
\* the root's number_visits is the number of completed iterations and the
\* sum of its children's number_visits; a node below the root that has
\* children has number_visits = 1 + the sum of its children's; the absolute
\* value of score_obtained is at most number_visits at every node; and no
\* visited node has a parent whose number_visits is 0, the value
\* calculate_uct would take the logarithm of
C29_VisitsConserved ==
    IterationDone =>
        /\ root.number_visits = iter - 1
        /\ root.number_visits = VisitsOf(root.children, 1)
        /\ \A position \in Positions(root) :
              /\ (position # <<>> /\ NodeAt(root, position).children # <<>>) =>
                    NodeAt(root, position).number_visits =
                        1 + VisitsOf(NodeAt(root, position).children, 1)
              /\ Magnitude(NodeAt(root, position).score_obtained) <=
                    NodeAt(root, position).number_visits
              /\ \A k \in 1..Len(NodeAt(root, position).children) :
                    NodeAt(root, position).children[k].number_visits > 0 =>
                        NodeAt(root, position).number_visits > 0

\* after the last iteration a node below the root has children and has been
\* visited three times, and an iteration before has ended in an unsuccessful
\* simulation or in a game nobody at the root has won: a score is smaller in
\* absolute value than the visits
C29_Witness ==
    /\ IterationDone
    /\ root.number_visits = MaxIterations
    /\ \E position \in Positions(root) :
          /\ position # <<>>
          /\ NodeAt(root, position).children # <<>>
          /\ NodeAt(root, position).number_visits >= 3
          /\ Magnitude(NodeAt(root, position).score_obtained) <
                NodeAt(root, position).number_visits

-----------------------------------------------------------------------------
(* Claims about what a round of the iterative deepening returns             *)

\* C30: minimax called with depth >= 1 on a node whose board is not full and
\* that has a child returns a best move, the last move of one of the node's
\* children, and a value that is the evaluation of a state explored below the
\* node, never the -100000 or the 1000000 a loop starts with, also when a
\* descendant is a dead end; so no round on such a root ends with no move
C30_NeverSentinel ==
    (agent \in Agents /\ op = "minimax" /\ ~out.raised) =>
        /\ out.move # None
        /\ IF agent = "A3"
           THEN /\ \E k \in 1..Len(root.children) :
                      out.move = LastMove(root.children[k].game_state)
                /\ out.value \notin {Tenths * MaxStart, Tenths * MinStart}
                /\ \E i \in 1..Len(out.leaves) : out.value = out.leaves[i].value
           ELSE /\ out.move \in Range(A1_compute_all_legal_moves(root.game_state))
                /\ out.value \notin {MaxStart, MinStart}

=============================================================================
